---- MODULE Spec2Model ----
(***************************************************************************)
(* Verification model of the TranslatorWiz Figma plugin.                   *)
(*                                                                         *)
(*   SaveSpec  : saveItemToContentful (src/src/services/contentful.service *)
(*               .ts), one step per network suspension point.              *)
(*   NodeSpec  : the three write paths of src/src/services/node.service.ts *)
(*               (applyTranslations, applyRecordToNodes,                   *)
(*               updateMultipleNodes), one step per font load / per node.  *)
(*   FetchSpec : fetchAllContentfulItems, one step per settled request.    *)
(*   MatchSpec : getTranslatableNodeCount / getTranslatableNodes.          *)
(*   RouterSpec: figma.ui.onmessage (src/src/index.ts) and the router of   *)
(*               src/src/handlers/index.ts, one step per delivery and per  *)
(*               settled handler.                                          *)
(*   ConfigSpec: validateConfig (config.service.ts).                       *)
(*   TimeoutSpec: fetchWithTimeout (network.service.ts), one step per      *)
(*               timer or fetch event.                                     *)
(*   UrlSpec   : the request URL each gateway function builds.             *)
(*   GatewaySpec: each gateway function from its request to its result.    *)
(*   ReconcileSpec: the comparison of node text and remote value and the   *)
(*               status derived from it.                                   *)
(*   ConcurrentSaveSpec: two saves of one entry against a remote that      *)
(*               checks X-Contentful-Version.                              *)
(*   MergeSpec : fetchAllContentfulItems on pages that share a key.        *)
(*   SaveConfigSpec: handleSaveConfig (handlers/config.handler.ts).        *)
(*   StreamSpec: the router's deduplication on a stream of requests.       *)
(*   SelectionSpec: enableSelectionTracking (src/src/index.ts), one step   *)
(*               per selection event and per timer.                        *)
(***************************************************************************)
EXTENDS Integers, Sequences, FiniteSets, TLC

(***************************************************************************)
(* Bounds of the model                                                     *)
(***************************************************************************)
MaxVersion == 2
MaxNodes == 2
MaxChars == 3
MaxTrans == 2
MaxPages == 3
MaxDeliveries == 3
MaxTicks == 2
TickMs == 100
MaxIdLen == 2
MaxItems == 2
MaxTextLen == 4
MaxSelectionEvents == 2
MaxEnables == 2

(***************************************************************************)
(* Values                                                                  *)
(***************************************************************************)
\* what `${x}` / a falsy test see for a property that is absent
Undef == "undefined"
\* sys.version absent (Contentful versions start at 1)
NoVersion == 0
\* HTTP ok status used for every ok response
StatusOk == 200
\* const limit = 1000 (Contentful max per request)
limit == 1000
\* threshold for duplicate message detection (milliseconds)
DUPLICATE_THRESHOLD_MS == 200
\* network timeout for API calls (10 seconds), in ms
API_TIMEOUT == 10000
\* debounce time for selection events (milliseconds)
SELECTION_DEBOUNCE_MS == 300

\* the calls of saveItemToContentful that can run; SaveSpec runs the first
Savers == {1, 2}
SoloSavers == {1}
EntryIds == {"E1", "E2"}
\* entryId as the caller can pass it: absent/empty (falsy) or an id
ItemEntryIds == {""} \cup {"E1"}
Versions == 1..MaxVersion
BadStatuses == {401, 404, 409, 500}
Texts == {"raw-a", "raw-b"}
RejectMessages == {"Network error", "Request timeout - please check your network connection"}
JsonErrorMessage == "Unexpected token < in JSON"
TypeErrorMessage == "Cannot read properties of undefined"

VARIABLES
    \* ---- saveItemToContentful, per running call ----
    saveItem,      \* the item argument
    savePc,        \* position of the call: which await it is suspended at
    saveReqs,      \* requests handed to fetchWithTimeout, in order
    saveResps,     \* what each of those requests settled with, in order
    saveVersion,   \* the local `version`
    saveResult,    \* the returned ContentfulSaveResult
    remoteEntry,   \* the entry the remote holds: its sys.version
    \* ---- node store and the write paths ----
    nodes,         \* the text nodes of the page
    op,            \* the running write operation and its arguments
    idx,           \* loop position in the operation's node list
    charPos,       \* position of the mixed-font loop inside the current node
    fontLoads,     \* the loadFontAsync calls of the running loop iteration
    loaded,        \* the nodes loadFontAsync was ever called for
    lastSettled,   \* how the latest awaited loadFontAsync settled
    settled,       \* every <<font, status>> a loadFontAsync has settled with
    written,       \* the positions whose characters the running call assigned, in order
    first,         \* applyTranslations called before with the same arguments: its result
    count,         \* successes so far
    errors,        \* errors[] of the running operation
    skipped,       \* skipped[] of applyTranslations
    outcome,       \* what the operation returned or threw
    before,        \* characters of every node when the operation started
    \* ---- fetchAllContentfulItems ----
    fetchData,     \* the entries the remote holds
    fetchPc,       \* position of the call: which await it is suspended at
    fetchTotal,    \* the local `total`
    fetchReqs,     \* the skip offset of every request issued, in order
    fetchPages,    \* allPages: what each request yielded (or that it is pending)
    fetchResult,   \* the map returned, or the error thrown
    \* ---- the node-matching operations ----
    matchCall,     \* the operation called and its NODE_NAME_PATTERN
    matchResult,   \* what it returned or threw
    \* ---- the message router ----
    now,           \* Date.now()
    lastMessageType,
    lastMessageTime,
    deliveries,    \* every call of figma.ui.onmessage: message, time and what came of it
    configData,    \* the config snapshot of src/src/index.ts that selection tracking reads
    \* ---- selection tracking of src/src/index.ts ----
    isSelectionTrackingEnabled,
    enableCalls,             \* the calls of enableSelectionTracking so far
    selectionListeners,      \* the listeners registered with figma.on('selectionchange')
    selectionDebounceTimer,  \* the timer the handle refers to: armed or not, and when due
    selection,               \* figma.currentPage.selection
    selectionLog,            \* the selectionchange events and the runs of the timer callback
    \* ---- one call of a function of the config service or of the gateway ----
    fnCall,        \* the function called and its arguments
    fnResult,      \* what it returned or threw, and the request it issued
    \* ---- fetchWithTimeout ----
    ftPc,          \* "idle", or "called" with the timeout argument once the promise is created
    ftTimer,       \* the setTimeout of the call: its delay and whether it is armed
    ftFetch,       \* the underlying fetch: pending, resolved or rejected
    ftPromise,     \* the returned promise: pending, or how it settled
    ftLog          \* the resolve/reject calls made on the promise, in order

matchVars == <<matchCall, matchResult>>
selectionVars == <<isSelectionTrackingEnabled, enableCalls, selectionListeners, selectionDebounceTimer,
                   selection, selectionLog>>
routerVars == <<now, lastMessageType, lastMessageTime, deliveries, configData, selectionVars>>
callVars == <<fnCall, fnResult>>
timeoutVars == <<ftPc, ftTimer, ftFetch, ftPromise, ftLog>>
fetchVars == <<fetchPc, fetchData, fetchTotal, fetchReqs, fetchPages, fetchResult>>
saveVars == <<saveItem, savePc, saveReqs, saveResps, saveVersion, saveResult, remoteEntry>>
nodeVars == <<nodes, op, idx, charPos, fontLoads, loaded, lastSettled, settled, written, first,
              count, errors, skipped, outcome, before>>
vars == <<saveVars, nodeVars, fetchVars, matchVars, routerVars, callVars, timeoutVars>>

(***************************************************************************)
(* HTTP: requests and the ways a fetchWithTimeout call can settle          *)
(***************************************************************************)
Request(method, target, id, version) ==
    [method |-> method, target |-> target, id |-> id, version |-> version]

\* a rejected fetch (network error) or the timeout of fetchWithTimeout
Rejected(m) ==
    [kind |-> "reject", ok |-> FALSE, status |-> 0, text |-> "", json |-> "none",
     id |-> Undef, version |-> NoVersion, message |-> m]
\* a non-ok HTTP response with its raw body
NotOk(st, t) ==
    [kind |-> "http", ok |-> FALSE, status |-> st, text |-> t, json |-> "none",
     id |-> Undef, version |-> NoVersion, message |-> ""]
\* an ok HTTP response; json: "unparsable", "nosys" (no sys object), "entry"
Ok(j, id, v) ==
    [kind |-> "http", ok |-> TRUE, status |-> StatusOk, text |-> "", json |-> j,
     id |-> id, version |-> v, message |-> ""]

Responses ==
    {Rejected(m) : m \in RejectMessages}
    \cup {NotOk(st, t) : st \in BadStatuses, t \in Texts}
    \cup {Ok("unparsable", Undef, NoVersion), Ok("nosys", Undef, NoVersion)}
    \cup {Ok("entry", id, v) : id \in EntryIds \cup {Undef}, v \in Versions \cup {NoVersion}}

(***************************************************************************)
(* saveItemToContentful                                                    *)
(***************************************************************************)
NoResult ==
    [returned |-> FALSE, success |-> FALSE, error |-> "", status |-> 0, response |-> "",
     operation |-> "", entryId |-> Undef, version |-> NoVersion, key |-> "", exception |-> ""]

\* return { success: true }
SuccessResult == [NoResult EXCEPT !.returned = TRUE, !.success = TRUE]

\* variant: a failed publish of a new entry is reported as a failed create
StageFailure_Collapsed(msg, r, operation, entryId, version, key) ==
    [NoResult EXCEPT !.returned = TRUE, !.status = r.status, !.response = r.text,
                     !.error = IF operation = "publish-new" THEN "Create failed" ELSE msg,
                     !.operation = IF operation = "publish-new" THEN "create" ELSE operation,
                     !.entryId = entryId, !.version = version, !.key = key]

\* the five `if (!response.ok) return {...}` results
StageFailure(msg, r, operation, entryId, version, key) ==
    [NoResult EXCEPT !.returned = TRUE, !.error = msg, !.status = r.status,
                     !.response = r.text, !.operation = operation,
                     !.entryId = entryId, !.version = version, !.key = key]

\* variant: the catch block reports every exception as unknown
CatchResult_Unknown(item, msg) ==
    [NoResult EXCEPT !.returned = TRUE, !.error = "Unknown error occurred",
                     !.exception = "Error",
                     !.operation = IF item.isUpdate THEN "update" ELSE "create"]

\* the catch block, for an Error instance
CatchResult(item, msg) ==
    [NoResult EXCEPT !.returned = TRUE, !.error = msg, !.exception = "Error",
                     !.operation = IF item.isUpdate THEN "update" ELSE "create"]

\* the exception (if any) raised by `await r.json()` followed by the reads
\* `.sys.id` and `.sys.version.toString()` that the code performs on the
\* parsed body before it issues the next request; "" when none is raised.
\* A missing sys.id raises nothing: it is interpolated as "undefined".
BodyError(r) ==
    IF r.json = "unparsable" THEN JsonErrorMessage
    ELSE IF r.json = "nosys" THEN TypeErrorMessage
    ELSE IF r.version = NoVersion THEN TypeErrorMessage
    ELSE ""

\* variant: the flag alone selects the update path
TakesUpdatePath_FlagOnly(item) == item.isUpdate

\* if (item.isUpdate && item.entryId)
TakesUpdatePath(item) == item.isUpdate /\ item.entryId # ""

Items == [key : {"jams_hello"}, value : {"New Hello"}, isUpdate : BOOLEAN, entryId : ItemEntryIds]

\* the request issued, its recording and the suspension at `await`
Issue(s, req, pc) ==
    /\ saveReqs' = [saveReqs EXCEPT ![s] = Append(@, req)]
    /\ savePc' = [savePc EXCEPT ![s] = pc]

\* a `return {...}` of the call
Return(s, res) ==
    /\ saveResult' = [saveResult EXCEPT ![s] = res]
    /\ savePc' = [savePc EXCEPT ![s] = "done"]
    /\ UNCHANGED saveReqs

Settle(s, r) == saveResps' = [saveResps EXCEPT ![s] = Append(@, r)]

\* variant: the PUT carries the version held before this GET was read
UpdateVersionHeader_Remembered(s, r) == saveVersion[s]

\* version header of the update PUT: the version read by the GET of this call
UpdateVersionHeader(s, r) == r.version

\* variant: the publish carries the version read before the write
PublishVersionHeader_BeforeWrite(s, r) == saveVersion[s]

\* version header of a publish PUT: the version of the entry just written
PublishVersionHeader(s, r) == r.version

\* entry, up to the first fetchWithTimeout: GET of the entry, or POST create
SaveCall(s, item) ==
    /\ savePc[s] = "idle"
    /\ saveItem' = [saveItem EXCEPT ![s] = item]
    /\ IF TakesUpdatePath(item)
         THEN Issue(s, Request("GET", "entry", item.entryId, NoVersion), "get")
         ELSE Issue(s, Request("POST", "entries", Undef, NoVersion), "create")
    /\ UNCHANGED <<saveResps, saveVersion, saveResult, nodeVars, fetchVars, matchVars, routerVars, callVars, timeoutVars>>

\* the GET settles: non-ok -> 'fetch'; else read sys.version and issue the PUT
GetSettles(s, r) ==
    /\ savePc[s] = "get"
    /\ Settle(s, r)
    /\ IF r.kind = "reject"
         THEN Return(s, CatchResult(saveItem[s], r.message)) /\ UNCHANGED saveVersion
         ELSE IF ~r.ok
         THEN /\ Return(s, StageFailure("Could not fetch entry", r, "fetch",
                                        saveItem[s].entryId, NoVersion, ""))
              /\ UNCHANGED saveVersion
         ELSE IF BodyError(r) # ""
         THEN Return(s, CatchResult(saveItem[s], BodyError(r))) /\ UNCHANGED saveVersion
         ELSE /\ saveVersion' = [saveVersion EXCEPT ![s] = r.version]
              /\ saveResult' = saveResult
              /\ Issue(s, Request("PUT", "entry", saveItem[s].entryId,
                                  UpdateVersionHeader(s, r)), "update")
    /\ UNCHANGED <<saveItem, nodeVars, fetchVars, matchVars, routerVars, callVars, timeoutVars>>

\* variant: an update PUT answered 409 counts as saved
UpdateSettles_IgnoresConflict(s, r) ==
    /\ savePc[s] = "update"
    /\ Settle(s, r)
    /\ IF r.kind = "reject"
         THEN Return(s, CatchResult(saveItem[s], r.message))
         ELSE IF ~r.ok /\ r.status = 409
         THEN Return(s, SuccessResult)
         ELSE IF ~r.ok
         THEN Return(s, StageFailure("Update failed", r, "update",
                                     saveItem[s].entryId, saveVersion[s], ""))
         ELSE IF BodyError(r) # ""
         THEN Return(s, CatchResult(saveItem[s], BodyError(r)))
         ELSE /\ saveResult' = saveResult
              /\ Issue(s, Request("PUT", "published", saveItem[s].entryId,
                                  PublishVersionHeader(s, r)), "publish")
    /\ UNCHANGED <<saveItem, saveVersion, nodeVars, fetchVars, matchVars, routerVars, callVars, timeoutVars>>

\* the update PUT settles: non-ok -> 'update'; else publish the updated entry
UpdateSettles(s, r) ==
    /\ savePc[s] = "update"
    /\ Settle(s, r)
    /\ IF r.kind = "reject"
         THEN Return(s, CatchResult(saveItem[s], r.message))
         ELSE IF ~r.ok
         THEN Return(s, StageFailure("Update failed", r, "update",
                                     saveItem[s].entryId, saveVersion[s], ""))
         ELSE IF BodyError(r) # ""
         THEN Return(s, CatchResult(saveItem[s], BodyError(r)))
         ELSE /\ saveResult' = saveResult
              /\ Issue(s, Request("PUT", "published", saveItem[s].entryId,
                                  PublishVersionHeader(s, r)), "publish")
    /\ UNCHANGED <<saveItem, saveVersion, nodeVars, fetchVars, matchVars, routerVars, callVars, timeoutVars>>

\* the publish after update settles: non-ok -> 'publish'; else success
PublishSettles(s, r) ==
    /\ savePc[s] = "publish"
    /\ Settle(s, r)
    /\ IF r.kind = "reject"
         THEN Return(s, CatchResult(saveItem[s], r.message))
         ELSE IF ~r.ok
         THEN Return(s, StageFailure("Publish failed", r, "publish",
                                     saveItem[s].entryId, NoVersion, ""))
         ELSE Return(s, SuccessResult)
    /\ UNCHANGED <<saveItem, saveVersion, nodeVars, fetchVars, matchVars, routerVars, callVars, timeoutVars>>

\* the create POST settles: non-ok -> 'create'; else publish newEntry.sys.id
CreateSettles(s, r) ==
    /\ savePc[s] = "create"
    /\ Settle(s, r)
    /\ IF r.kind = "reject"
         THEN Return(s, CatchResult(saveItem[s], r.message))
         ELSE IF ~r.ok
         THEN Return(s, StageFailure("Create failed", r, "create",
                                     Undef, NoVersion, saveItem[s].key))
         ELSE IF BodyError(r) # ""
         THEN Return(s, CatchResult(saveItem[s], BodyError(r)))
         ELSE /\ saveResult' = saveResult
              /\ Issue(s, Request("PUT", "published", r.id,
                                  PublishVersionHeader(s, r)), "publishNew")
    /\ UNCHANGED <<saveItem, saveVersion, nodeVars, fetchVars, matchVars, routerVars, callVars, timeoutVars>>

\* the publish after create settles: non-ok -> 'publish-new'; else success
PublishNewSettles(s, r) ==
    /\ savePc[s] = "publishNew"
    /\ Settle(s, r)
    /\ IF r.kind = "reject"
         THEN Return(s, CatchResult(saveItem[s], r.message))
         ELSE IF ~r.ok
         THEN Return(s, StageFailure("Created but publish failed", r, "publish-new",
                                     saveReqs[s][Len(saveReqs[s])].id, NoVersion, ""))
         ELSE Return(s, SuccessResult)
    /\ UNCHANGED <<saveItem, saveVersion, nodeVars, fetchVars, matchVars, routerVars, callVars, timeoutVars>>

(***************************************************************************)
(* The remote's version check on write, and saves that run against it      *)
(***************************************************************************)
\* no remote entry is modelled: the responses are arbitrary
NoRemoteEntry == [version |-> NoVersion]
VersionMismatch == 409
ConflictText == "raw-a"

\* the items of two updates of the same entry
UpdateItems == {item \in Items : item.isUpdate /\ item.entryId = "E1"}

\* the request a suspended call is waiting for
AwaitedRequest(s) == saveReqs[s][Len(saveReqs[s])]

\* a write is accepted when it carries the version the entry has
Fresh(req) == req.version = remoteEntry.version

\* the remote's answer to a request: a GET reads the entry; a PUT of the
\* entry or of its published state is accepted and raises sys.version by one
\* when it carries the current version, and is answered 409 otherwise
RemoteAnswer(req) ==
    IF req.method = "GET" THEN Ok("entry", req.id, remoteEntry.version)
    ELSE IF Fresh(req) THEN Ok("entry", req.id, remoteEntry.version + 1)
    ELSE NotOk(VersionMismatch, ConflictText)
RemoteAfter(req) ==
    IF req.method = "PUT" /\ Fresh(req)
    THEN [remoteEntry EXCEPT !.version = @ + 1] ELSE remoteEntry

\* a call starts an update of the entry
UpdateStarts(s) ==
    /\ \E item \in UpdateItems : SaveCall(s, item)
    /\ UNCHANGED remoteEntry

\* the remote handles the request of a suspended call, which resumes
RemoteHandles(s) ==
    /\ savePc[s] \in {"get", "update", "publish"}
    /\ LET req == AwaitedRequest(s) IN
       /\ remoteEntry' = RemoteAfter(req)
       /\ \/ GetSettles(s, RemoteAnswer(req))
          \/ UpdateSettles(s, RemoteAnswer(req))
          \/ PublishSettles(s, RemoteAnswer(req))

\* the request of a suspended call does not reach the remote
RequestLost(s) ==
    /\ savePc[s] \in {"get", "update", "publish"}
    /\ \E m \in RejectMessages :
          \/ GetSettles(s, Rejected(m))
          \/ UpdateSettles(s, Rejected(m))
          \/ PublishSettles(s, Rejected(m))
    /\ UNCHANGED remoteEntry

(***************************************************************************)
(* Node store (figma.currentPage) and the values the write paths handle    *)
(***************************************************************************)
Mixed == "figma.mixed"
Names == {"jams_hello", "other_text"}
\* an id that getNodeByIdAsync resolves to null (deleted, or not a text node)
GoneId == 0

\* texts are sequences of characters, so that characters.length is Len
OldText == [i \in 1..MaxChars |-> "o"]
NewHello == <<"N", "H">>
NewText == <<"T">>
EmptyText == <<>>

\* new RegExp(config.NODE_NAME_PATTERN).test(name) for the pattern '^jams_'
PatternTest(name) == name \in {"jams_hello", "jams_world"}

\* the per-character fonts of a node with mixed fonts
MixedRangeFonts == [i \in 1..MaxChars |-> IF i % 2 = 1 THEN "Arial:Regular" ELSE "Arial:Bold"]
UniformRangeFonts == [i \in 1..MaxChars |-> "Arial:Regular"]

\* a text node; font is its font state: one font, mixed fonts, or a missing
\* font (whose fontName no write path reads)
TextNode(id, name, locked, font) ==
    [id |-> id, name |-> name, characters |-> OldText, locked |-> locked,
     hasMissingFont |-> font = "missing",
     fontName |-> IF font = "mixed" THEN Mixed ELSE "Arial:Regular",
     rangeFonts |-> IF font = "mixed" THEN MixedRangeFonts ELSE UniformRangeFonts]

NodeKinds == [name : Names, locked : BOOLEAN, font : {"uniform", "mixed", "missing"}]

Pages ==
    UNION {{[i \in 1..n |-> TextNode(i, k[i].name, k[i].locked, k[i].font)]
             : k \in [1..n -> NodeKinds]} : n \in 0..MaxNodes}

\* the ids of the page in document order
AllIds(n) == [i \in 1..n |-> i]

\* figma.getNodeByIdAsync(id): the node's position on the page, 0 for null
NodeById(id) == IF id \in 1..Len(nodes) THEN id ELSE GoneId

\* the fonts loadFontAsync is awaited for, in order, before a node is written:
\* one per character position when fontName === figma.mixed, else fontName
FontsToLoad(node) ==
    IF node.fontName = Mixed
    THEN [i \in 1..Len(node.characters) |-> node.rangeFonts[i]]
    ELSE <<node.fontName>>

\* variant: the assigned text is appended to the text the node has
SetCharacters_Append(node, text) ==
    LET f == IF node.fontName = Mixed THEN node.rangeFonts[1] ELSE node.fontName
    IN [node EXCEPT !.characters = node.characters \o text, !.fontName = f,
                    !.rangeFonts = [i \in 1..Len(node.characters \o text) |-> f]]

\* node.characters = text (the node takes the style of its first character)
SetCharacters(node, text) ==
    LET f == IF node.fontName = Mixed THEN node.rangeFonts[1] ELSE node.fontName
    IN [node EXCEPT !.characters = text, !.fontName = f,
                    !.rangeFonts = [i \in 1..Len(text) |-> f]]

NoOp == [kind |-> "none", targets |-> <<>>, tmap |-> <<>>, newText |-> EmptyText,
         fields |-> <<>>, record |-> <<>>]
\* one entry of errors[] / skipped[]: the node name or node id the message
\* text carries (name "" / id -1 when the text does not carry it)
Err(name, id, msg) == [name |-> name, id |-> id, msg |-> msg]
NoErr == Err("", -1, "")
NoOutcome == [kind |-> "running", count |-> 0, success |-> FALSE, message |-> "",
              detail |-> NoErr, errors |-> <<>>]
FontLoad(id, font, status) == [node |-> id, font |-> font, status |-> status]
FontErrorMessage == "Font not found"

\* the first loadFontAsync call of a loop iteration, for the node at position n
FirstLoad(n) == <<FontLoad(n, FontsToLoad(nodes[n])[1], "pending")>>


(***************************************************************************)
(* applyTranslations                                                       *)
(***************************************************************************)
TransEntries ==
    {[key |-> "jams_hello", value |-> NewHello],
     [key |-> "other_text", value |-> NewText],
     [key |-> "jams_hello", value |-> EmptyText],
     [key |-> " jams_hello ", value |-> NewText]}
TranslationLists == UNION {[1..n -> TransEntries] : n \in 0..MaxTrans}

\* for (const t of translations) if (t.key && t.value) map.set(t.key, t.value)
RECURSIVE BuildMap(_, _)
BuildMap(translations, m) ==
    IF translations = <<>> THEN m
    ELSE LET t == Head(translations)
             m2 == IF t.key # "" /\ t.value # EmptyText
                   THEN [k \in DOMAIN m \cup {t.key} |-> IF k = t.key THEN t.value ELSE m[k]]
                   ELSE m
         IN BuildMap(Tail(translations), m2)

\* variant: every text node of the page is a target
FilterMatching_All(i) == [k \in 1..(Len(nodes) - i + 1) |-> i + k - 1]

\* allTextNodes.filter(n => pattern.test(n.name)), as page positions
RECURSIVE FilterMatching(_)
FilterMatching(i) ==
    IF i > Len(nodes) THEN <<>>
    ELSE IF PatternTest(nodes[i].name) THEN <<i>> \o FilterMatching(i + 1)
    ELSE FilterMatching(i + 1)

\* translationMap.get(node.name) is truthy
HasTranslation(o, node) == node.name \in DOMAIN o.tmap

\* the check made on a matched node before anything else
ApplyLockCheck(node) == node.locked

\* the loop of applyTranslations from node i up to its next `await`: the
\* iterations that end in `continue` or fall through without a translation
\* run synchronously. Yields the position it stops at and the lists so far.
RECURSIVE ApplyRun(_, _, _, _)
ApplyRun(o, i, errs, skips) ==
    IF i > Len(o.targets) THEN [idx |-> i, errors |-> errs, skipped |-> skips]
    ELSE LET node == nodes[o.targets[i]] IN
         IF ApplyLockCheck(node)
         THEN ApplyRun(o, i + 1, errs, Append(skips, Err(node.name, -1, "Locked")))
         ELSE IF ~HasTranslation(o, node) THEN ApplyRun(o, i + 1, errs, skips)
         ELSE IF node.hasMissingFont
         THEN ApplyRun(o, i + 1, Append(errs, Err(node.name, -1, "Missing font")), skips)
         ELSE [idx |-> i, errors |-> errs, skipped |-> skips]

\* variant: a locked skip is surfaced before a recorded error
ApplyOutcome_SkipsFirst(c, errs, skips) ==
    IF c = 0
    THEN IF Len(skips) > 0
         THEN [NoOutcome EXCEPT !.kind = "threw", !.message = "All nodes skipped",
                                !.detail = skips[1]]
         ELSE IF Len(errs) > 0
         THEN [NoOutcome EXCEPT !.kind = "threw", !.message = "Translation failed",
                                !.detail = errs[1]]
         ELSE [NoOutcome EXCEPT !.kind = "threw",
                                !.message = "No matching translations found for text nodes"]
    ELSE [NoOutcome EXCEPT !.kind = "returned", !.count = c, !.success = TRUE]

\* variant: any recorded error makes the call throw, whatever was updated
ApplyOutcome_ThrowsOnErrors(c, errs, skips) ==
    IF Len(errs) > 0
    THEN [NoOutcome EXCEPT !.kind = "threw", !.message = "Translation failed",
                           !.detail = errs[1]]
    ELSE IF c = 0
    THEN IF Len(skips) > 0
         THEN [NoOutcome EXCEPT !.kind = "threw", !.message = "All nodes skipped",
                                !.detail = skips[1]]
         ELSE [NoOutcome EXCEPT !.kind = "threw",
                                !.message = "No matching translations found for text nodes"]
    ELSE [NoOutcome EXCEPT !.kind = "returned", !.count = c, !.success = TRUE]

\* the code after the loop: if (count === 0) throw ...; return count
ApplyOutcome(c, errs, skips) ==
    IF c = 0
    THEN IF Len(errs) > 0
         THEN [NoOutcome EXCEPT !.kind = "threw", !.message = "Translation failed",
                                !.detail = errs[1]]
         ELSE IF Len(skips) > 0
         THEN [NoOutcome EXCEPT !.kind = "threw", !.message = "All nodes skipped",
                                !.detail = skips[1]]
         ELSE [NoOutcome EXCEPT !.kind = "threw",
                                !.message = "No matching translations found for text nodes"]
    ELSE [NoOutcome EXCEPT !.kind = "returned", !.count = c, !.success = TRUE]

\* continue applyTranslations at node i: run to the next await, then either
\* call loadFontAsync for the first font of the node reached or finish
ApplyContinue(o, i, c, errs, skips) ==
    LET run == ApplyRun(o, i, errs, skips) IN
    /\ idx' = run.idx
    /\ errors' = run.errors
    /\ skipped' = run.skipped
    /\ count' = c
    /\ IF run.idx > Len(o.targets)
         THEN /\ outcome' = ApplyOutcome(c, run.errors, run.skipped)
              /\ charPos' = 0
              /\ fontLoads' = <<>>
              /\ loaded' = loaded
         ELSE /\ outcome' = NoOutcome
              /\ charPos' = 1
              /\ fontLoads' = FirstLoad(o.targets[run.idx])
              /\ loaded' = loaded \cup {o.targets[run.idx]}

\* variant: a page without matched nodes goes through the loop and its summary
ApplyStart_NoEarlyThrow(tmap) ==
    LET o == [NoOp EXCEPT !.kind = "apply", !.targets = FilterMatching(1), !.tmap = tmap] IN
    /\ op' = o
    /\ before' = nodes
    /\ written' = <<>>
    /\ ApplyContinue(o, 1, 0, <<>>, <<>>)
    /\ UNCHANGED <<nodes, lastSettled, settled, saveVars, fetchVars, matchVars, routerVars, callVars, timeoutVars>>

\* applyTranslations from its entry to its first await (or to its end)
ApplyStart(tmap) ==
    LET o == [NoOp EXCEPT !.kind = "apply", !.targets = FilterMatching(1), !.tmap = tmap] IN
    /\ op' = o
    /\ before' = nodes
    /\ written' = <<>>
    /\ IF Len(o.targets) = 0
         THEN /\ outcome' = [NoOutcome EXCEPT !.kind = "threw",
                     !.message = "No translatable text nodes found on current page"]
              /\ idx' = 1 /\ charPos' = 0 /\ count' = 0
              /\ errors' = <<>> /\ skipped' = <<>> /\ fontLoads' = <<>>
              /\ loaded' = loaded
         ELSE ApplyContinue(o, 1, 0, <<>>, <<>>)
    /\ UNCHANGED <<nodes, lastSettled, settled, saveVars, fetchVars, matchVars, routerVars, callVars, timeoutVars>>

NoFirst == [called |-> FALSE, nodes |-> <<>>, outcome |-> NoOutcome]

ApplyCall(translations) ==
    /\ op.kind = "none"
    /\ ApplyStart(BuildMap(translations, <<>>))
    /\ first' = first

\* applyTranslations is called once more, with the same translations, on the
\* page the first call left
ApplyRepeat ==
    /\ op.kind = "apply" /\ outcome.kind # "running" /\ ~first.called
    /\ ApplyStart(op.tmap)
    /\ first' = [called |-> TRUE, nodes |-> nodes, outcome |-> outcome]

Running(kind) == op.kind = kind /\ outcome.kind = "running"

\* the pending loadFontAsync settles
Settles(ok) ==
    LET status == IF ok THEN "ok" ELSE "failed" IN
    /\ lastSettled' = status
    /\ settled' = settled \cup {<<fontLoads[Len(fontLoads)].font, status>>}

\* the pending load resolved and the loop over the characters calls
\* loadFontAsync for the font of the next position
NextLoad(n) ==
    /\ charPos' = charPos + 1
    /\ fontLoads' = Append([fontLoads EXCEPT ![Len(fontLoads)].status = "ok"],
                           FontLoad(n, FontsToLoad(nodes[n])[charPos + 1], "pending"))
    /\ loaded' = loaded

\* node.characters = text
Write(n, text) ==
    /\ nodes' = [nodes EXCEPT ![n] = SetCharacters(@, text)]
    /\ written' = Append(written, n)

\* variant: the write follows the last load whether or not it succeeded
ReadyToWrite_AnyOutcome(node, k, ok) == k >= Len(FontsToLoad(node))

\* may node.characters be assigned now: every font of the node is loaded
ReadyToWrite(node, k, ok) == ok /\ k >= Len(FontsToLoad(node))

\* a loadFontAsync awaited by applyTranslations settles
ApplyFontSettles(ok) ==
    /\ Running("apply") /\ charPos >= 1
    /\ LET n == op.targets[idx]
           node == nodes[n]
       IN IF ReadyToWrite(node, charPos, ok)
          THEN /\ Write(n, op.tmap[node.name])
               /\ ApplyContinue(op, idx + 1, count + 1, errors, skipped)
          ELSE IF ok
          THEN /\ NextLoad(n)
               /\ UNCHANGED <<nodes, written, idx, count, errors, skipped, outcome>>
          ELSE /\ ApplyContinue(op, idx + 1, count,
                                Append(errors, Err(node.name, -1, FontErrorMessage)),
                                skipped)
               /\ UNCHANGED <<nodes, written>>
    /\ Settles(ok)
    /\ UNCHANGED <<op, before, first, saveVars, fetchVars, matchVars, routerVars, callVars, timeoutVars>>

(***************************************************************************)
(* applyRecordToNodes                                                      *)
(***************************************************************************)
FieldNames == {"title", "absent"}
\* recordFields: the record has a title and no field named "absent"
RecordFields == [f \in {"title"} |-> NewText]
\* the mappings passed in: every node of the page mapped to some field, also
\* after a mapping whose node is gone (the nodes of the page range
\* over every kind in every order, so these cover every sequence of targets)
MappingLists(n) ==
    LET mapped == {[i \in 1..n |-> [field |-> f[i], node |-> i]] : f \in [1..n -> FieldNames]}
    IN mapped \cup {<<[field |-> "title", node |-> GoneId]>>
                        \o [i \in 1..n |-> [field |-> "title", node |-> i]]}

\* the end of one loop iteration: next mapping, or the code after the loop
\* (console.warn of the errors; the function returns nothing)
RecordNext(errs) ==
    /\ idx' = idx + 1
    /\ errors' = errs
    /\ charPos' = 0
    /\ fontLoads' = <<>>
    /\ loaded' = loaded
    /\ outcome' = IF idx + 1 > Len(op.targets)
                  THEN [NoOutcome EXCEPT !.kind = "returned", !.errors = errs]
                  ELSE outcome

RecordCall(mappings) ==
    /\ op.kind = "none"
    /\ op' = [NoOp EXCEPT !.kind = "record",
                          !.targets = [i \in 1..Len(mappings) |-> mappings[i].node],
                          !.fields = [i \in 1..Len(mappings) |-> mappings[i].field],
                          !.record = RecordFields]
    /\ before' = nodes
    /\ outcome' = IF Len(mappings) = 0
                  THEN [NoOutcome EXCEPT !.kind = "returned"] ELSE outcome
    /\ UNCHANGED <<nodes, written, idx, charPos, count, errors, skipped, fontLoads, loaded,
                   lastSettled, settled, first, saveVars, fetchVars, matchVars, routerVars, callVars, timeoutVars>>

\* `await figma.getNodeByIdAsync(mapping.node)` resolves: the checks of the
\* iteration up to its first loadFontAsync
RecordResolve ==
    /\ Running("record") /\ charPos = 0
    /\ LET id == op.targets[idx]
           n == NodeById(id)
       IN IF n = GoneId
          THEN RecordNext(Append(errors, Err("", id, "Node not found")))
          ELSE IF nodes[n].locked
          THEN RecordNext(Append(errors, Err(nodes[n].name, -1, "Node is locked")))
          ELSE IF op.fields[idx] \notin DOMAIN op.record
          THEN RecordNext(errors)
          ELSE IF nodes[n].hasMissingFont
          THEN RecordNext(Append(errors, Err(nodes[n].name, -1, "Missing font in node")))
          ELSE /\ charPos' = 1
               /\ fontLoads' = FirstLoad(n)
               /\ loaded' = loaded \cup {n}
               /\ UNCHANGED <<idx, errors, outcome>>
    /\ UNCHANGED <<nodes, written, op, before, count, skipped, lastSettled, settled, first, saveVars, fetchVars, matchVars, routerVars, callVars, timeoutVars>>

\* a loadFontAsync awaited by applyRecordToNodes settles
RecordFontSettles(ok) ==
    /\ Running("record") /\ charPos >= 1
    /\ LET n == NodeById(op.targets[idx])
           node == nodes[n]
       IN IF ReadyToWrite(node, charPos, ok)
          THEN /\ Write(n, op.record[op.fields[idx]])
               /\ RecordNext(errors)
          ELSE IF ok
          THEN /\ NextLoad(n)
               /\ UNCHANGED <<nodes, written, idx, errors, outcome>>
          ELSE /\ RecordNext(Append(errors, Err("", -1, FontErrorMessage)))
               /\ UNCHANGED <<nodes, written>>
    /\ Settles(ok)
    /\ UNCHANGED <<op, before, count, skipped, first, saveVars, fetchVars, matchVars, routerVars, callVars, timeoutVars>>

(***************************************************************************)
(* updateMultipleNodes                                                     *)
(***************************************************************************)
\* the nodeIds passed in: the ids of the page, also with a gone id before or
\* after them and with the first id repeated (the nodes of the page range
\* over every kind in every order, so these cover every sequence of targets)
NodeIdLists(n) ==
    {AllIds(n), <<GoneId>> \o AllIds(n), AllIds(n) \o <<GoneId>>}
    \cup (IF n >= 1 THEN {AllIds(n) \o <<1>>} ELSE {})

\* variant: any per-node failure makes the batch a failure
UpdateOutcome_FailsOnErrors(c, errs) ==
    [NoOutcome EXCEPT !.kind = "returned", !.success = c > 0 /\ Len(errs) = 0, !.count = c,
                      !.errors = errs,
                      !.detail = IF Len(errs) > 0 THEN errs[1] ELSE NoErr]

\* the return value built after the loop
UpdateOutcome(c, errs) ==
    [NoOutcome EXCEPT !.kind = "returned", !.success = c > 0, !.count = c,
                      !.errors = errs,
                      !.detail = IF c = 0 /\ Len(errs) > 0 THEN errs[1] ELSE NoErr]

\* the end of one loop iteration: next id, or the return after the loop
UpdateNext(c, errs) ==
    /\ idx' = idx + 1
    /\ count' = c
    /\ errors' = errs
    /\ charPos' = 0
    /\ fontLoads' = <<>>
    /\ loaded' = loaded
    /\ outcome' = IF idx + 1 > Len(op.targets) THEN UpdateOutcome(c, errs) ELSE outcome

\* variant: no missing-font check before the fonts are loaded
UpdateNodeCheck_None(node) == ""

\* the checks updateMultipleNodes makes on a resolved text node before it
\* loads fonts: "" to go on, else the message pushed to errors
UpdateNodeCheck(node) == IF node.hasMissingFont THEN "Missing font" ELSE ""

UpdateCall(nodeIds, newText) ==
    /\ op.kind = "none"
    /\ op' = [NoOp EXCEPT !.kind = "update", !.targets = nodeIds, !.newText = newText]
    /\ before' = nodes
    /\ outcome' = IF Len(nodeIds) = 0
                  THEN [NoOutcome EXCEPT !.kind = "returned", !.message = "Invalid node IDs"]
                  ELSE outcome
    /\ UNCHANGED <<nodes, written, idx, charPos, count, errors, skipped, fontLoads, loaded,
                   lastSettled, settled, first, saveVars, fetchVars, matchVars, routerVars, callVars, timeoutVars>>

\* `await figma.getNodeByIdAsync(nodeId)` resolves: the checks of the
\* iteration up to its first loadFontAsync
UpdateResolve ==
    /\ Running("update") /\ charPos = 0
    /\ LET id == op.targets[idx]
           n == NodeById(id)
       IN IF n = GoneId
          THEN UpdateNext(count, Append(errors, Err("", id, "Not found or not a text node")))
          ELSE IF UpdateNodeCheck(nodes[n]) # ""
          THEN UpdateNext(count, Append(errors, Err(nodes[n].name, -1, UpdateNodeCheck(nodes[n]))))
          ELSE /\ charPos' = 1
               /\ fontLoads' = FirstLoad(n)
               /\ loaded' = loaded \cup {n}
               /\ UNCHANGED <<idx, count, errors, outcome>>
    /\ UNCHANGED <<nodes, written, op, before, skipped, lastSettled, settled, first, saveVars, fetchVars, matchVars, routerVars, callVars, timeoutVars>>

\* a loadFontAsync awaited by updateMultipleNodes settles
UpdateFontSettles(ok) ==
    /\ Running("update") /\ charPos >= 1
    /\ LET id == op.targets[idx]
           n == NodeById(id)
           node == nodes[n]
       IN IF ReadyToWrite(node, charPos, ok)
          THEN /\ Write(n, op.newText)
               /\ UpdateNext(count + 1, errors)
          ELSE IF ok
          THEN /\ NextLoad(n)
               /\ UNCHANGED <<nodes, written, idx, count, errors, outcome>>
          ELSE /\ UpdateNext(count, Append(errors, Err("", id, FontErrorMessage)))
               /\ UNCHANGED <<nodes, written>>
    /\ Settles(ok)
    /\ UNCHANGED <<op, before, skipped, first, saveVars, fetchVars, matchVars, routerVars, callVars, timeoutVars>>


(***************************************************************************)
(* fetchAllContentfulItems                                                 *)
(***************************************************************************)
\* the totals a space may hold: around every page boundary
Totals == {p * limit + d : p \in 0..(MaxPages - 1), d \in {0, 1, limit \div 2}}
              \cup {MaxPages * limit}

\* what an entry of the space may be besides a live published one
EntryKinds == {"archived", "draft", "nokey", "novalue"}
NoOdd == [at |-> 0, kind |-> "live"]
\* a space: `total` entries, all live and published except at most one, on
\* the first or on the second page
Datasets ==
    {[total |-> t, odd |-> o] :
        t \in Totals,
        o \in {NoOdd} \cup [at : {1, limit + 1}, kind : EntryKinds]}

\* a space with one entry, on the first or on the second page, that carries
\* the key of the first entry of the other page
DupDatasets ==
    {[total |-> t, odd |-> o] :
        t \in Totals,
        o \in {NoOdd} \cup [at : {1, limit + 1}, kind : {"dupkey"}]}

\* the i-th entry of the space as the API returns it; its key is its index
\* (key 0 / empty value: the field is absent), sys.id is its index; an
\* entry with a duplicated key has the key of another entry and its own value
Entry(ds, i) ==
    LET k == IF ds.odd.at = i THEN ds.odd.kind ELSE "live" IN
    [id |-> i,
     key |-> IF k = "nokey" THEN 0
             ELSE IF k = "dupkey" THEN (IF i = 1 THEN limit + 1 ELSE 1)
             ELSE i,
     value |-> IF k = "novalue" THEN <<>>
               ELSE IF k = "dupkey" THEN <<"a", "a">>
               ELSE <<"a">>,
     archivedVersion |-> IF k = "archived" THEN 1 ELSE NoVersion,
     publishedVersion |-> IF k = "draft" THEN NoVersion ELSE 1]

Min(a, b) == IF a < b THEN a ELSE b

\* the ways the request with the given skip offset can settle: rejected,
\* non-ok, an ok body that is not JSON, an ok JSON body without items, or
\* the page of the space at that offset
PageResponses(ds, skip) ==
    {[kind |-> "reject", total |-> 0, lo |-> 1, hi |-> 0],
     [kind |-> "notok", total |-> 0, lo |-> 1, hi |-> 0],
     [kind |-> "badjson", total |-> 0, lo |-> 1, hi |-> 0],
     [kind |-> "noitems", total |-> 0, lo |-> 1, hi |-> 0],
     [kind |-> "page", total |-> ds.total, lo |-> skip + 1,
      hi |-> Min(skip + limit, ds.total)]}

Pending == [kind |-> "pending", total |-> 0, lo |-> 1, hi |-> 0]

\* fetchWithTimeout(pageUrl).then(r => r.json()).catch(() => ({ items: [] })):
\* a rejection or a body that is not JSON becomes an empty page; any other
\* body, also that of a non-ok response, is taken as it is
PageJson(r) ==
    IF r.kind \in {"reject", "badjson"}
    THEN [kind |-> "empty", total |-> 0, lo |-> 1, hi |-> 0]
    ELSE IF r.kind = "notok" THEN [r EXCEPT !.kind = "noitems"]
    ELSE r

\* variant: the number of remaining pages is rounded down
RemainingPages_Floor(total) == (total - limit) \div limit

\* Math.ceil((total - limit) / limit), for total > limit
RemainingPages(total) == (total - limit + limit - 1) \div limit

\* variant: no entry is skipped
SkipsEntry_Never(item) == FALSE

\* item.sys.archivedVersion !== undefined
SkipsEntry(item) == item.archivedVersion # NoVersion

\* the entries of one element of allPages that reach the map
PageKeys(ds, page) ==
    IF page.kind \in {"page", "empty"}
    THEN {i \in page.lo..page.hi :
             LET item == Entry(ds, i) IN
             ~SkipsEntry(item) /\ item.key # 0 /\ item.value # <<>>}
    ELSE {}

\* the positions of the space whose entry carries a key
KeyHolders(ds, k) == {i \in {k, ds.odd.at} : i \in 1..ds.total /\ Entry(ds, i).key = k}

\* variant: a key that is in the map already keeps its value
ProcessPages_FirstWins(ds, pages) ==
    LET from == UNION {PageKeys(ds, pages[p]) : p \in 1..Len(pages)}
        keys == {Entry(ds, i).key : i \in from} IN
    [k \in keys |->
        LET held == KeyHolders(ds, k) \cap from
            item == Entry(ds, CHOOSE i \in held : \A j \in held : i <= j)
        IN [value |-> item.value, id |-> item.id]]

\* the loops over allPages: items[key] = { value, id: item.sys.id }. The
\* pages are walked in the order of allPages (the order of the requests)
\* and the items in the order of the page, so a key is left with the entry
\* at the highest position that carries it
ProcessPages(ds, pages) ==
    LET from == UNION {PageKeys(ds, pages[p]) : p \in 1..Len(pages)}
        keys == {Entry(ds, i).key : i \in from} IN
    [k \in keys |->
        LET held == KeyHolders(ds, k) \cap from
            item == Entry(ds, CHOOSE i \in held : \A j \in held : j <= i)
        IN [value |-> item.value, id |-> item.id]]

NoFetchResult == [kind |-> "none", items |-> <<>>, message |-> ""]
FetchReturns(pages) ==
    /\ fetchPc' = "done"
    /\ fetchResult' = [NoFetchResult EXCEPT !.kind = "returned",
                                           !.items = ProcessPages(fetchData, pages)]
FetchThrows(m) ==
    /\ fetchPc' = "done"
    /\ fetchResult' = [NoFetchResult EXCEPT !.kind = "threw", !.message = m]

\* the call up to its first await: the request for the first page
FetchCall ==
    /\ fetchPc = "idle"
    /\ fetchPc' = "first"
    /\ fetchReqs' = <<0>>
    /\ fetchPages' = <<Pending>>
    /\ UNCHANGED <<fetchData, fetchTotal, fetchResult, saveVars, nodeVars, matchVars, routerVars, callVars, timeoutVars>>

\* the first request settles: failures throw; otherwise total is read and
\* the remaining pages, if any, are all requested at once
FirstSettles(r) ==
    /\ fetchPc = "first"
    /\ IF r.kind = "reject"
         THEN /\ FetchThrows("Failed to fetch Contentful items: Network error")
              /\ UNCHANGED <<fetchTotal, fetchReqs, fetchPages>>
         ELSE IF r.kind = "notok"
         THEN /\ FetchThrows("Failed to fetch Contentful items: HTTP 500")
              /\ UNCHANGED <<fetchTotal, fetchReqs, fetchPages>>
         ELSE IF r.kind = "badjson"
         THEN /\ FetchThrows("Failed to fetch Contentful items: Unexpected token")
              /\ UNCHANGED <<fetchTotal, fetchReqs, fetchPages>>
         ELSE /\ fetchTotal' = r.total
              /\ IF r.total > limit
                   THEN LET n == RemainingPages(r.total) IN
                        /\ fetchReqs' = fetchReqs \o [page \in 1..n |-> page * limit]
                        /\ fetchPages' = <<r>> \o [page \in 1..n |-> Pending]
                        /\ IF n = 0
                             THEN FetchReturns(<<r>>)
                             ELSE fetchPc' = "pages" /\ fetchResult' = fetchResult
                   ELSE /\ fetchPages' = <<r>>
                        /\ fetchReqs' = fetchReqs
                        /\ FetchReturns(<<r>>)
    /\ UNCHANGED <<fetchData, saveVars, nodeVars, matchVars, routerVars, callVars, timeoutVars>>

\* one of the remaining requests settles; Promise.all resolves with the last
PageSettles(p, r) ==
    /\ fetchPc = "pages"
    /\ p \in 2..Len(fetchPages)
    /\ fetchPages[p] = Pending
    /\ LET pages == [fetchPages EXCEPT ![p] = PageJson(r)] IN
       /\ fetchPages' = pages
       /\ IF \A q \in 1..Len(pages) : pages[q] # Pending
            THEN FetchReturns(pages)
            ELSE UNCHANGED <<fetchPc, fetchResult>>
    /\ UNCHANGED <<fetchData, fetchTotal, fetchReqs, saveVars, nodeVars, matchVars, routerVars, callVars, timeoutVars>>


(***************************************************************************)
(* getTranslatableNodeCount / getTranslatableNodes                         *)
(***************************************************************************)
\* NODE_NAME_PATTERN values: the default, one that matches no node name, and
\* one that new RegExp() rejects
Patterns == {"^jams_", "^none_", "[invalid"}
\* new RegExp(pattern) does not throw
Compiles(pattern) == pattern # "[invalid"
\* new RegExp(pattern).test(name)
Test(pattern, name) == pattern = "^jams_" /\ PatternTest(name)

\* variant: of the nodes that share a name only the first is returned
RECURSIVE Matching_FirstPerName(_, _, _)
Matching_FirstPerName(pattern, page, i) ==
    IF i > Len(page) THEN <<>>
    ELSE IF Test(pattern, page[i].name) /\ ~\E j \in 1..(i - 1) : page[j].name = page[i].name
    THEN <<[id |-> page[i].id, name |-> page[i].name, characters |-> page[i].characters]>>
             \o Matching_FirstPerName(pattern, page, i + 1)
    ELSE Matching_FirstPerName(pattern, page, i + 1)

\* the text nodes of the page whose name the pattern matches
RECURSIVE Matching(_, _, _)
Matching(pattern, page, i) ==
    IF i > Len(page) THEN <<>>
    ELSE IF Test(pattern, page[i].name)
    THEN <<[id |-> page[i].id, name |-> page[i].name, characters |-> page[i].characters]>>
             \o Matching(pattern, page, i + 1)
    ELSE Matching(pattern, page, i + 1)

NoMatchResult == [kind |-> "none", count |-> 0, nodes |-> <<>>, exception |-> ""]

\* getTranslatableNodeCount: the RegExp is built inside try; catch returns 0
getTranslatableNodeCount(pattern, page) ==
    IF ~Compiles(pattern)
    THEN [NoMatchResult EXCEPT !.kind = "returned", !.count = 0]
    ELSE [NoMatchResult EXCEPT !.kind = "returned",
                               !.count = Len(Matching(pattern, page, 1))]

\* getTranslatableNodes: the RegExp is built outside any try
getTranslatableNodes(pattern, page) ==
    IF ~Compiles(pattern)
    THEN [NoMatchResult EXCEPT !.kind = "threw", !.exception = "SyntaxError"]
    ELSE LET found == Matching(pattern, page, 1) IN
         [NoMatchResult EXCEPT !.kind = "returned", !.count = Len(found), !.nodes = found]

NoMatchCall == [op |-> "none", pattern |-> ""]

CountCall(pattern) ==
    /\ matchCall = NoMatchCall
    /\ matchCall' = [op |-> "getTranslatableNodeCount", pattern |-> pattern]
    /\ matchResult' = getTranslatableNodeCount(pattern, nodes)
    /\ UNCHANGED <<saveVars, nodeVars, fetchVars, routerVars, callVars, timeoutVars>>

NodesCall(pattern) ==
    /\ matchCall = NoMatchCall
    /\ matchCall' = [op |-> "getTranslatableNodes", pattern |-> pattern]
    /\ matchResult' = getTranslatableNodes(pattern, nodes)
    /\ UNCHANGED <<saveVars, nodeVars, fetchVars, routerVars, callVars, timeoutVars>>

\* no call of a function / no result of it yet
NoFnCall == [fn |-> "none"]
NoFnResult == [kind |-> "none"]

\* the names that two or more of the returned nodes carry
DuplicateNames(found) ==
    {found[i].name : i \in {i \in 1..Len(found) :
                               \E j \in 1..Len(found) : j # i /\ found[j].name = found[i].name}}

\* the UI receives 'translatable-nodes-loaded' and records a warning for
\* every name that several nodes share
WarnDuplicates ==
    /\ matchCall.op = "getTranslatableNodes"
    /\ matchResult.kind = "returned"
    /\ fnResult = NoFnResult
    /\ fnResult' = [kind |-> "warnings", value |-> DuplicateNames(matchResult.nodes)]
    /\ UNCHANGED <<fnCall, saveVars, nodeVars, fetchVars, matchVars, routerVars, timeoutVars>>


(***************************************************************************)
(* The config service: validateConfig                                      *)
(***************************************************************************)
\* the required fields in the order validateConfig tests them
RequiredFields ==
    <<"SPACE_ID", "ENVIRONMENT", "CMA_TOKEN", "CONTENT_TYPE", "KEY_FIELD", "VALUE_FIELD",
      "NODE_NAME_PATTERN">>

\* String.prototype.trim on the strings of the model: the ones that carry
\* leading or trailing whitespace lose it
Trim(str) ==
    CASE str = " " -> ""
      [] str = "  " -> ""
      [] str = " x " -> "x"
      [] str = " en-US " -> "en-US"
      [] str = " jams_hello " -> "jams_hello"
      [] OTHER -> str

\* values of a field other than the pattern: empty, whitespace-only, populated
FieldValues == {"", "  ", "x", " x "}
\* values of NODE_NAME_PATTERN
PatternValues == {"", "  "} \cup Patterns

Configs ==
    [SPACE_ID : FieldValues, ENVIRONMENT : FieldValues, CMA_TOKEN : {"", "x"},
     CONTENT_TYPE : FieldValues, KEY_FIELD : {"", "  ", "x"}, VALUE_FIELD : {"  ", "x"},
     NODE_NAME_PATTERN : PatternValues]

\* the config the UI ships by default, filled in
ValidConfig ==
    [SPACE_ID |-> "x", ENVIRONMENT |-> "x", CMA_TOKEN |-> "x", CONTENT_TYPE |-> "x",
     KEY_FIELD |-> "x", VALUE_FIELD |-> "x", NODE_NAME_PATTERN |-> "^jams_"]

\* variant: only the empty string counts as missing
IsBlank_EmptyOnly(value) == value = ""

\* !value || !value.trim()
IsBlank(value) == value = "" \/ Trim(value) = ""

NoConfigError == [kind |-> "null", field |-> "", pattern |-> ""]

\* validateConfig(config): `${field} is required` for the first blank field,
\* `Invalid regex pattern: ${pattern}` when new RegExp throws, else null
validateConfig(config) ==
    LET blank == {i \in 1..Len(RequiredFields) : IsBlank(config[RequiredFields[i]])} IN
    IF blank # {}
    THEN [NoConfigError EXCEPT
              !.kind = "required",
              !.field = RequiredFields[CHOOSE i \in blank : \A k \in blank : i <= k]]
    ELSE IF ~Compiles(config.NODE_NAME_PATTERN)
    THEN [NoConfigError EXCEPT !.kind = "invalid-regex",
                               !.pattern = config.NODE_NAME_PATTERN]
    ELSE NoConfigError

\* validateConfig called with a config
ValidateCall ==
    /\ fnCall.fn = "validateConfig"
    /\ fnResult = NoFnResult
    /\ fnResult' = [kind |-> "returned", value |-> validateConfig(fnCall.config)]
    /\ UNCHANGED <<fnCall, saveVars, nodeVars, fetchVars, matchVars, routerVars, timeoutVars>>

(***************************************************************************)
(* The gateway: request URLs                                               *)
(***************************************************************************)
\* characters of a value placed in a URL: an unreserved one and the ones
\* that delimit the path, the query and the fragment, and the space
UrlChars == {"a", "/", "?", "#", " "}
UrlValues == UNION {[1..n -> UrlChars] : n \in 1..MaxIdLen}

\* encodeURIComponent on one character: its percent-escape, or itself
Escape(c) ==
    CASE c = "/" -> "%2F"
      [] c = "?" -> "%3F"
      [] c = "#" -> "%23"
      [] c = " " -> "%20"
      [] OTHER -> c
encodeURIComponent(str) == [i \in 1..Len(str) |-> Escape(str[i])]

\* String.prototype.trim on a sequence of characters
RECURSIVE TrimStart(_)
TrimStart(str) ==
    IF str # <<>> /\ Head(str) = " " THEN TrimStart(Tail(str)) ELSE str
RECURSIVE TrimEnd(_)
TrimEnd(str) ==
    IF str # <<>> /\ str[Len(str)] = " " THEN TrimEnd(SubSeq(str, 1, Len(str) - 1)) ELSE str
TrimChars(str) == TrimEnd(TrimStart(str))

GatewayFunctions ==
    {"fetchLocales", "fetchTranslations", "fetchContentTypes", "fetchRecords",
     "validateContentType", "fetchAllContentfulItems", "saveItemToContentful"}

\* the config fields that go into URLs, as character sequences
UrlConfig == [SPACE_ID |-> <<"a">>, ENVIRONMENT |-> <<"a">>, CONTENT_TYPE |-> <<"a">>]

\* a URL is the sequence of the pieces of its template literal: the fixed
\* texts, each one piece, and the characters of the interpolated values
\* `https://api.contentful.com/spaces/${spaceId}/environments/${environment}`
BaseUrl(config) ==
    <<"https://api.contentful.com/spaces/">> \o encodeURIComponent(config.SPACE_ID)
        \o <<"/environments/">> \o encodeURIComponent(config.ENVIRONMENT)

\* the URL of the first request of a gateway function; arg: the locale of
\* fetchTranslations, the contentType of fetchRecords, item.entryId of
\* saveItemToContentful (empty: the create path)
RequestUrl(fn, config, arg) ==
    CASE fn = "fetchLocales" -> BaseUrl(config) \o <<"/locales">>
      [] fn = "fetchTranslations" ->
            BaseUrl(config) \o <<"/entries?content_type=">>
                \o encodeURIComponent(config.CONTENT_TYPE)
                \o <<"&locale=">> \o encodeURIComponent(TrimChars(arg))
      [] fn = "fetchContentTypes" -> BaseUrl(config) \o <<"/content_types">>
      [] fn = "fetchRecords" ->
            BaseUrl(config) \o <<"/entries?content_type=">> \o encodeURIComponent(arg)
                \o <<"&limit=100">>
      [] fn = "validateContentType" ->
            BaseUrl(config) \o <<"/content_types/">> \o encodeURIComponent(config.CONTENT_TYPE)
      [] fn = "fetchAllContentfulItems" ->
            BaseUrl(config) \o <<"/entries?content_type=">>
                \o encodeURIComponent(config.CONTENT_TYPE) \o <<"&limit=1000">>
      [] fn = "saveItemToContentful" ->
            IF arg # <<>>
            THEN BaseUrl(config) \o <<"/entries/">> \o arg
            ELSE BaseUrl(config) \o <<"/entries">>

\* `${url}/published`, the publish request of the update path
PublishUrl(config, entryId) == RequestUrl("saveItemToContentful", config, entryId) \o <<"/published">>

\* !locale || typeof locale !== 'string' || locale.trim() === ''
InvalidLocale(locale) == locale = <<>> \/ TrimChars(locale) = <<>>

NoRequest == <<>>
\* the status code an error message carries, if it carries one
NoStatus == [carried |-> FALSE, code |-> 0]
Carried(st) == [carried |-> TRUE, code |-> st]
RequestIssued(url) == [kind |-> "pending", url |-> url]
Threw(prefix, message, status) ==
    [kind |-> "threw", url |-> NoRequest, prefix |-> prefix, message |-> message,
     status |-> status]

\* a gateway function from its entry to its first await: the request it
\* hands to fetchWithTimeout
IssueRequest ==
    /\ fnCall.fn \in GatewayFunctions
    /\ fnResult = NoFnResult
    /\ fnResult' = IF fnCall.fn = "fetchTranslations" /\ InvalidLocale(fnCall.arg)
                   THEN Threw("", "Invalid locale", NoStatus)
                   ELSE RequestIssued(RequestUrl(fnCall.fn, fnCall.config, fnCall.arg))
    /\ UNCHANGED <<fnCall, saveVars, nodeVars, fetchVars, matchVars, routerVars, timeoutVars>>

(***************************************************************************)
(* The gateway: what a function makes of the response to its request       *)
(***************************************************************************)
GatewayStatuses == {400, 401, 403, 404, 500}

\* a field of an entry as fetchTranslations reads it: absent, not a string
\* (a localized object), or a string
NotAString == "[object Object]"
FieldContents == {Undef, NotAString, "", "  ", "x", " x "}
IsString(v) == v \notin {Undef, NotAString}

\* an element of data.items: null, an object without fields, one whose
\* fields is null, or an entry with its key and value fields
TranslationItems ==
    {[shape |-> s, key |-> Undef, value |-> Undef] : s \in {"null", "nofields", "nullfields"}}
    \cup [shape : {"entry"}, key : FieldContents, value : FieldContents]
ItemLists == UNION {[1..n -> TranslationItems] : n \in 0..MaxItems}

\* the body of an ok response
Body(json, items, list, keyField, valueField) ==
    [kind |-> "http", ok |-> TRUE, status |-> StatusOk, json |-> json, items |-> items,
     list |-> list, keyField |-> keyField, valueField |-> valueField]
GatewayResponses(fn) ==
    {Rejected(m) : m \in RejectMessages}
    \cup {NotOk(st, "raw-a") : st \in GatewayStatuses}
    \cup {Body("unparsable", FALSE, <<>>, FALSE, FALSE), Body("object", FALSE, <<>>, FALSE, FALSE)}
    \cup (IF fn = "fetchTranslations"
          THEN {Body("object", TRUE, l, FALSE, FALSE) : l \in ItemLists}
          ELSE IF fn = "validateContentType"
          THEN {Body("object", FALSE, <<>>, k, v) : k, v \in BOOLEAN}
          ELSE {Body("object", TRUE, <<>>, FALSE, FALSE)})

\* the catch block of the fetch* functions: `Failed to load ...: ${message}`
LoadPrefix(fn) ==
    CASE fn = "fetchLocales" -> "Failed to load locales: "
      [] fn = "fetchTranslations" -> "Failed to load translations: "
      [] fn = "fetchContentTypes" -> "Failed to load content types: "
      [] fn = "fetchRecords" -> "Failed to load records: "
      [] fn = "fetchAllContentfulItems" -> "Failed to fetch Contentful items: "
      [] OTHER -> ""

Condition(message, status) == [message |-> message, status |-> status]

\* if (!response.ok) { ... }: the message a function makes of a status, and
\* the status code where the message carries it
StatusCondition(fn, arg, st) ==
    CASE fn \in {"fetchLocales", "fetchContentTypes"} ->
            IF st = 401 \/ st = 403 THEN Condition("Invalid API credentials", NoStatus)
            ELSE IF st = 404 THEN Condition("Space or environment not found", NoStatus)
            ELSE IF fn = "fetchLocales" THEN Condition("Failed to fetch locales", NoStatus)
            ELSE Condition("Failed to fetch content types", NoStatus)
      [] fn \in {"fetchTranslations", "fetchRecords"} ->
            IF st = 401 \/ st = 403 THEN Condition("Invalid API credentials", NoStatus)
            ELSE IF st = 404 THEN Condition("Content type not found", NoStatus)
            ELSE IF fn = "fetchTranslations"
            THEN Condition("Failed to fetch translations", NoStatus)
            ELSE Condition("Failed to fetch records", NoStatus)
      [] fn = "validateContentType" ->
            IF st = 404 THEN Condition("Content type not found", NoStatus)
            ELSE Condition("Content type check failed", NoStatus)
      [] fn = "fetchAllContentfulItems" -> Condition("HTTP", Carried(st))
      [] fn = "saveItemToContentful" ->
            IF arg # <<>> THEN Condition("Could not fetch entry", Carried(st))
            ELSE Condition("Create failed", Carried(st))

\* variant: entries are kept whatever their key and value
KeepsTranslation_Always(t) == TRUE

\* .filter(t => t.key.trim() !== '' && t.value.trim() !== '')
KeepsTranslation(t) == Trim(t.key) # "" /\ Trim(t.value) # ""

\* .map(item => ({ key, value })) of fetchTranslations on one item
ToTranslation(item) ==
    [key |-> IF item.shape = "entry" /\ IsString(item.key) THEN item.key ELSE "",
     value |-> IF item.shape = "entry" /\ IsString(item.value) THEN item.value ELSE ""]

RECURSIVE Translations(_)
Translations(list) ==
    IF list = <<>> THEN <<>>
    ELSE (IF KeepsTranslation(ToTranslation(Head(list)))
          THEN <<ToTranslation(Head(list))>> ELSE <<>>) \o Translations(Tail(list))

Returned(url, success, message, status, value) ==
    [kind |-> "returned", url |-> url, success |-> success, message |-> message,
     status |-> status, value |-> value]

\* the function after `await fetchWithTimeout(...)` settled with r, to its
\* return or throw (for fetchAllContentfulItems and saveItemToContentful:
\* to their next request, which FetchSpec and SaveSpec follow)
AfterResponse(fn, arg, url, r) ==
    LET Fail(message, status) ==
            IF fn = "validateContentType" \/ fn = "saveItemToContentful"
            THEN Returned(url, FALSE, message, status, <<>>)
            ELSE [Threw(LoadPrefix(fn), message, status) EXCEPT !.url = url]
    IN IF r.kind = "reject" THEN Fail(r.message, NoStatus)
       ELSE IF ~r.ok
       THEN LET c == StatusCondition(fn, arg, r.status) IN Fail(c.message, c.status)
       ELSE IF r.json = "unparsable" THEN Fail(JsonErrorMessage, NoStatus)
       ELSE IF fn = "validateContentType"
       THEN IF ~r.keyField THEN Fail("Key field not found in content type", NoStatus)
            ELSE IF ~r.valueField
            THEN Fail("Value field not found in content type", NoStatus)
            ELSE Returned(url, TRUE, "", NoStatus, <<>>)
       ELSE IF fn \in {"fetchAllContentfulItems", "saveItemToContentful"}
       THEN [kind |-> "continues", url |-> url]
       ELSE IF ~r.items THEN Fail("Invalid response format", NoStatus)
       ELSE IF fn = "fetchTranslations"
       THEN IF \E i \in 1..Len(r.list) : r.list[i].shape = "nullfields"
            THEN Fail(TypeErrorMessage, NoStatus)
            ELSE Returned(url, TRUE, "", NoStatus, Translations(r.list))
       ELSE Returned(url, TRUE, "", NoStatus, r.list)

\* the responses the pending request can settle with
PossibleResponses ==
    IF fnResult.kind = "pending" THEN GatewayResponses(fnCall.fn) ELSE {}

\* the request of a gateway function settles with r; the result keeps r
ResponseSettles(r) ==
    /\ fnCall.fn \in GatewayFunctions
    /\ fnResult.kind = "pending"
    /\ fnResult' = ("response" :> r) @@ AfterResponse(fnCall.fn, fnCall.arg, fnResult.url, r)
    /\ UNCHANGED <<fnCall, saveVars, nodeVars, fetchVars, matchVars, routerVars, timeoutVars>>

(***************************************************************************)
(* The reconciler: text comparison and sync status                         *)
(***************************************************************************)
\* characters of a text: a letter, the space, the non-breaking space, a
\* zero-width character, the combining acute accent and the precomposed
\* letter the two make
TextChars == {"a", " ", "nbsp", "zwsp", "acute", "a-acute"}
NodeTexts == UNION {[1..n -> TextChars] : n \in 0..MaxTextLen}
\* the values the remote map holds for the node's name
RemoteTexts ==
    {<<"a">>, <<"a", " ", "a">>, <<"a", "nbsp", "a">>, <<"a-acute">>,
     <<"a", "acute">>, <<" ", "a">>}

\* non-breaking spaces become regular spaces
ReplaceNbsp(str) == [i \in 1..Len(str) |-> IF str[i] = "nbsp" THEN " " ELSE str[i]]
\* zero-width characters are removed
StripZeroWidth(str) == SelectSeq(str, LAMBDA c : c # "zwsp")
\* a run of spaces becomes one space
RECURSIVE CollapseSpaces(_)
CollapseSpaces(str) ==
    IF Len(str) <= 1 THEN str
    ELSE IF str[1] = " " /\ str[2] = " " THEN CollapseSpaces(Tail(str))
    ELSE <<Head(str)>> \o CollapseSpaces(Tail(str))
\* canonical composition: a letter and the accent that follows it become the
\* precomposed letter
RECURSIVE ComposeNFC(_)
ComposeNFC(str) ==
    IF Len(str) <= 1 THEN str
    ELSE IF str[1] = "a" /\ str[2] = "acute"
    THEN <<"a-acute">> \o ComposeNFC(SubSeq(str, 3, Len(str)))
    ELSE <<Head(str)>> \o ComposeNFC(Tail(str))

\* the normalization without the removal of zero-width characters
Normalize_KeepsZeroWidth(str) ==
    ComposeNFC(TrimChars(CollapseSpaces(ReplaceNbsp(str))))

\* the normal form of a text: no non-breaking space, no zero-width
\* character, no run of spaces, no space at either end, composed
Normalize(str) ==
    ComposeNFC(TrimChars(CollapseSpaces(StripZeroWidth(ReplaceNbsp(str)))))

\* the single comparison of a node's text with a remote value
textsAreEqual(a, b) == Normalize(a) = Normalize(b)

\* the remote map of the reconciler: no entry, or one under the node's name
RemoteMaps ==
    {[n \in {} |-> [value |-> <<>>, id |-> 0]]}
        \cup {[n \in {"jams_hello"} |-> [value |-> v, id |-> 1]] : v \in RemoteTexts}

\* the reconciler's status of a node by name against the fetched map, whose
\* keys are given
SyncStatus(name, text, items, keys) ==
    IF name \notin keys THEN "new"
    ELSE IF textsAreEqual(text, items[name].value) THEN "synced" ELSE "changed"

\* whether the save of the item is offered
SaveOffered(name, text, items, keys) ==
    name \notin keys \/ ~textsAreEqual(text, items[name].value)

\* one sync item built for a node and the fetched map
Reconcile ==
    /\ fnCall.fn = "reconcile"
    /\ fnResult = NoFnResult
    /\ LET keys == DOMAIN fnCall.items IN
       fnResult' = [kind |-> "returned",
                    value |-> [status |-> SyncStatus(fnCall.name, fnCall.text, fnCall.items, keys),
                               save |-> SaveOffered(fnCall.name, fnCall.text, fnCall.items, keys)]]
    /\ UNCHANGED <<fnCall, saveVars, nodeVars, fetchVars, matchVars, routerVars, timeoutVars>>

(***************************************************************************)
(* The network service: fetchWithTimeout                                   *)
(***************************************************************************)
\* the timeout argument: absent (the default applies) or a number of ms
TimeoutArgs ==
    {[given |-> FALSE, ms |-> 0], [given |-> TRUE, ms |-> 100], [given |-> TRUE, ms |-> 5000]}
\* new Error(message)
Error(message) == [kind |-> "error", message |-> message]
TimeoutError == Error("Request timeout - please check your network connection")
\* what the underlying fetch can resolve with, and reject with
FetchValues == {r \in Responses : r.kind = "http"}
FetchErrors == {Error("Network error"), Error("Failed to fetch")}

NoTimer == [delay |-> 0, state |-> "none"]
PendingPromise == [state |-> "pending", value |-> [kind |-> "none"]]

\* variant: a promise that takes the latest resolve/reject call
SettlePromise_Latest(promise, how, value) == [state |-> how, value |-> value]

\* resolve(value) / reject(value) on a promise: only the first call counts
SettlePromise(promise, how, value) ==
    IF promise.state = "pending" THEN [state |-> how, value |-> value] ELSE promise

\* clearTimeout(timeoutId): a timer that has not fired will not fire
ClearTimeout(timer) == IF timer.state = "armed" THEN [timer EXCEPT !.state = "cleared"] ELSE timer

\* fetchWithTimeout(url, options, timeout): the executor arms the timer and
\* starts the fetch
FetchWithTimeoutCall(timeout) ==
    /\ ftPc.pc = "idle"
    /\ ftPc' = [pc |-> "called", timeout |-> timeout]
    /\ ftTimer' = [delay |-> IF timeout.given THEN timeout.ms ELSE API_TIMEOUT, state |-> "armed"]
    /\ ftFetch' = "pending"
    /\ ftPromise' = PendingPromise
    /\ ftLog' = <<>>
    /\ UNCHANGED <<saveVars, nodeVars, fetchVars, matchVars, routerVars, callVars>>

\* the setTimeout callback runs
TimerFires ==
    /\ ftTimer.state = "armed"
    /\ ftTimer' = [ftTimer EXCEPT !.state = "fired"]
    /\ ftPromise' = SettlePromise(ftPromise, "rejected", TimeoutError)
    /\ ftLog' = Append(ftLog, [how |-> "rejected", value |-> TimeoutError])
    /\ UNCHANGED <<ftPc, ftFetch, saveVars, nodeVars, fetchVars, matchVars, routerVars, callVars>>

\* .then(response => { clearTimeout(timeoutId); resolve(response) })
FetchResolves(response) ==
    /\ ftFetch = "pending"
    /\ ftFetch' = "resolved"
    /\ ftTimer' = ClearTimeout(ftTimer)
    /\ ftPromise' = SettlePromise(ftPromise, "resolved", response)
    /\ ftLog' = Append(ftLog, [how |-> "resolved", value |-> response])
    /\ UNCHANGED <<ftPc, saveVars, nodeVars, fetchVars, matchVars, routerVars, callVars>>

\* .catch(error => { clearTimeout(timeoutId); reject(error) })
FetchRejects(error) ==
    /\ ftFetch = "pending"
    /\ ftFetch' = "rejected"
    /\ ftTimer' = ClearTimeout(ftTimer)
    /\ ftPromise' = SettlePromise(ftPromise, "rejected", error)
    /\ ftLog' = Append(ftLog, [how |-> "rejected", value |-> error])
    /\ UNCHANGED <<ftPc, saveVars, nodeVars, fetchVars, matchVars, routerVars, callVars>>

(***************************************************************************)
(* figma.ui.onmessage and the message router                               *)
(***************************************************************************)
\* the request types of the documented message protocol that expect a response
ProtocolTypes ==
    {"init", "save-config", "load-locales", "apply-translation",
     "get-translatable-nodes", "get-all-contentful-items", "save-contentful-item",
     "update-multiple-nodes"}

\* the request types whose handler calls the gateway with msg.config
RemoteTypes ==
    {"get-all-contentful-items", "save-contentful-item", "load-content-types", "load-records",
     "load-multiple-records", "preflight-test-locales", "preflight-check-content"}

\* a value posted by the UI: null, a non-object, an object without a string
\* type, or an object with a type and (for the types that take one) a config
\* that is absent, valid, has a NODE_NAME_PATTERN that is no RegExp, or has
\* a blank SPACE_ID
Msg(shape, type, config) == [shape |-> shape, type |-> type, config |-> config]
Messages ==
    {Msg("null", Undef, "none"), Msg("number", Undef, "none"), Msg("notype", Undef, "none")}
    \cup {Msg("typed", t, "valid") :
              t \in ProtocolTypes \cup RemoteTypes \cup {"select-node", "bogus"}}
    \cup {Msg("typed", t, c) : t \in {"save-config", "get-translatable-nodes"},
                               c \in {"none", "badpattern"}}
    \cup {Msg("typed", t, "blank") : t \in RemoteTypes}
    \cup {Msg("typed", t, "none") : t \in {"get-all-contentful-items", "preflight-test-locales"}}

\* msg?.type
TypeOf(msg) == msg.type
\* msg && typeof msg === 'object' && typeof msg.type === 'string'
IsValidMessage(msg) == msg.shape = "typed"
\* the config object a message carries
ConfigOf(config) ==
    CASE config = "badpattern" -> [ValidConfig EXCEPT !.NODE_NAME_PATTERN = "[invalid"]
      [] config = "blank" -> [ValidConfig EXCEPT !.SPACE_ID = ""]
      [] config = "nopattern" -> [ValidConfig EXCEPT !.NODE_NAME_PATTERN = ""]
      [] OTHER -> ValidConfig
ConfigPattern(config) == ConfigOf(config).NODE_NAME_PATTERN

\* switch (msg.type): the handler a type is routed to
HandlerOf(type) ==
    CASE type = "init" -> "handleInit"
      [] type = "save-config" -> "handleSaveConfig"
      [] type = "get-translatable-nodes" -> "handleGetTranslatableNodes"
      [] type = "get-all-contentful-items" -> "handleGetAllContentfulItems"
      [] type = "save-contentful-item" -> "handleSaveContentfulItem"
      [] type = "update-multiple-nodes" -> "handleUpdateMultipleNodes"
      [] type = "select-node" -> "handleSelectNode"
      [] type = "load-content-types" -> "handleLoadContentTypes"
      [] type = "load-records" -> "handleLoadRecords"
      [] type = "load-multiple-records" -> "handleLoadMultipleRecords"
      [] type = "preflight-test-locales" -> "handlePreflightTestLocales"
      [] type = "preflight-check-content" -> "handlePreflightCheckContent"
      [] OTHER -> "none"

\* the event a handler that calls the gateway posts: when msg.config is
\* missing, when the call succeeds, and when it fails
GatewayEvents(handler) ==
    CASE handler = "handleGetAllContentfulItems" ->
            [missing |-> "error", ok |-> "contentful-items-loaded", failed |-> "error"]
      [] handler = "handleSaveContentfulItem" ->
            [missing |-> "error", ok |-> "item-saved", failed |-> "item-saved"]
      [] handler = "handleLoadContentTypes" ->
            [missing |-> "error", ok |-> "content-types-loaded", failed |-> "error"]
      [] handler = "handleLoadRecords" ->
            [missing |-> "error", ok |-> "records-loaded", failed |-> "error"]
      [] handler = "handleLoadMultipleRecords" ->
            [missing |-> "error", ok |-> "multiple-records-loaded", failed |-> "error"]
      [] handler = "handlePreflightTestLocales" ->
            [missing |-> "preflight-locales-result", ok |-> "preflight-locales-result",
             failed |-> "preflight-locales-result"]
      [] handler = "handlePreflightCheckContent" ->
            [missing |-> "preflight-content-result", ok |-> "preflight-content-result",
             failed |-> "preflight-content-result"]
GatewayHandlers ==
    {"handleGetAllContentfulItems", "handleSaveContentfulItem", "handleLoadContentTypes",
     "handleLoadRecords", "handleLoadMultipleRecords", "handlePreflightTestLocales",
     "handlePreflightCheckContent"}

\* remote: the config a request to the CMS was issued with, "none" if no
\* request was issued
Delivery(msg, dropped, handler, status, events, remote) ==
    [msg |-> msg, at |-> now, dropped |-> dropped, handler |-> handler,
     status |-> status, events |-> events, escaped |-> FALSE, remote |-> remote]

\* the wrapper of src/src/index.ts once messageHandler(msg) has resolved:
\* it reads msg.type, which throws for null
AfterHandler(msg) == IF msg.shape = "null" THEN "rejected" ELSE "resolved"

\* the rest of that wrapper: if (msg.type === 'save-config' && msg.config)
\* configData = Promise.resolve(msg.config); i: the call of onmessage
UpdateConfigData(msg, i) ==
    IF msg.shape # "null" /\ msg.type = "save-config" /\ msg.config # "none"
    THEN [config |-> msg.config, by |-> i]
    ELSE configData

\* a handler from its entry to its first await, or to its end: the events it
\* posts, and whether it is suspended
HandlerStart(handler, msg) ==
    CASE handler = "handleSaveConfig" ->
            IF msg.config = "none" \/ validateConfig(ConfigOf(msg.config)) # NoConfigError
            THEN [running |-> FALSE, events |-> <<"config-save-failed">>, remote |-> "none"]
            ELSE [running |-> TRUE, events |-> <<>>, remote |-> "none"]
      [] handler = "handleGetTranslatableNodes" ->
            IF msg.config = "none"
            THEN [running |-> FALSE, events |-> <<"error">>, remote |-> "none"]
            ELSE IF getTranslatableNodes(ConfigPattern(msg.config), nodes).kind = "threw"
            THEN [running |-> FALSE, events |-> <<"error">>, remote |-> "none"]
            ELSE [running |-> FALSE, events |-> <<"translatable-nodes-loaded">>,
                  remote |-> "none"]
      [] handler \in GatewayHandlers ->
            IF msg.config = "none"
            THEN [running |-> FALSE, events |-> <<GatewayEvents(handler).missing>>,
                  remote |-> "none"]
            ELSE [running |-> TRUE, events |-> <<>>, remote |-> msg.config]
      [] handler = "none" -> [running |-> FALSE, events |-> <<>>, remote |-> "none"]
      [] OTHER -> [running |-> TRUE, events |-> <<>>, remote |-> "none"]

\* catch (error) of the router: the generic error event
RouterCatch(d) == [d EXCEPT !.escaped = TRUE, !.events = Append(@, "error")]

\* a handler from the await it is suspended at to its end; ok: the storage,
\* network or node call it awaits gave what the handler hopes for
HandlerFinish(d, ok) ==
    CASE d.handler = "handleInit" ->
            [d EXCEPT !.events = IF ok THEN <<"config-loaded", "node-count">>
                                 ELSE <<"config-loaded">>]
      [] d.handler = "handleSaveConfig" ->
            IF ok THEN [d EXCEPT !.events = <<"config-saved", "node-count">>]
            ELSE RouterCatch(d)
      [] d.handler \in GatewayHandlers ->
            [d EXCEPT !.events = IF ok THEN <<GatewayEvents(d.handler).ok>>
                                 ELSE <<GatewayEvents(d.handler).failed>>]
      [] d.handler = "handleUpdateMultipleNodes" ->
            [d EXCEPT !.events = <<"update-multiple-nodes-result">>]
      [] OTHER -> d

\* variant: a dropped message restarts the window
OnMessage_DropRestarts(msg) ==
    /\ Len(deliveries) < MaxDeliveries
    /\ IF TypeOf(msg) = lastMessageType /\ now - lastMessageTime < DUPLICATE_THRESHOLD_MS
         THEN /\ deliveries' = Append(deliveries,
                     Delivery(msg, TRUE, "none", AfterHandler(msg), <<>>, "none"))
              /\ configData' = UpdateConfigData(msg, Len(deliveries) + 1)
              /\ lastMessageTime' = now
              /\ UNCHANGED lastMessageType
         ELSE /\ lastMessageType' = TypeOf(msg)
              /\ lastMessageTime' = now
              /\ IF ~IsValidMessage(msg)
                   THEN /\ deliveries' = Append(deliveries,
                               Delivery(msg, FALSE, "none", AfterHandler(msg), <<>>, "none"))
                        /\ configData' = UpdateConfigData(msg, Len(deliveries) + 1)
                   ELSE LET handler == HandlerOf(msg.type)
                            start == HandlerStart(handler, msg)
                        IN /\ deliveries' = Append(deliveries,
                                  Delivery(msg, FALSE, handler,
                                           IF start.running THEN "running"
                                           ELSE AfterHandler(msg),
                                           start.events, start.remote))
                           /\ configData' = IF start.running THEN configData
                                             ELSE UpdateConfigData(msg, Len(deliveries) + 1)
    /\ UNCHANGED <<now, selectionVars, saveVars, nodeVars, fetchVars, matchVars, callVars, timeoutVars>>

\* figma.ui.onmessage(msg), up to the first await of the handler it reaches
OnMessage(msg) ==
    /\ Len(deliveries) < MaxDeliveries
    /\ IF TypeOf(msg) = lastMessageType /\ now - lastMessageTime < DUPLICATE_THRESHOLD_MS
         THEN /\ deliveries' = Append(deliveries,
                     Delivery(msg, TRUE, "none", AfterHandler(msg), <<>>, "none"))
              /\ configData' = UpdateConfigData(msg, Len(deliveries) + 1)
              /\ UNCHANGED <<lastMessageType, lastMessageTime>>
         ELSE /\ lastMessageType' = TypeOf(msg)
              /\ lastMessageTime' = now
              /\ IF ~IsValidMessage(msg)
                   THEN /\ deliveries' = Append(deliveries,
                               Delivery(msg, FALSE, "none", AfterHandler(msg), <<>>, "none"))
                        /\ configData' = UpdateConfigData(msg, Len(deliveries) + 1)
                   ELSE LET handler == HandlerOf(msg.type)
                            start == HandlerStart(handler, msg)
                        IN /\ deliveries' = Append(deliveries,
                                  Delivery(msg, FALSE, handler,
                                           IF start.running THEN "running"
                                           ELSE AfterHandler(msg),
                                           start.events, start.remote))
                           /\ configData' = IF start.running THEN configData
                                             ELSE UpdateConfigData(msg, Len(deliveries) + 1)
    /\ UNCHANGED <<now, selectionVars, saveVars, nodeVars, fetchVars, matchVars, callVars, timeoutVars>>

\* the call a suspended handler awaits settles and the handler runs to its end
HandlerSettles(i, ok) ==
    /\ i \in 1..Len(deliveries)
    /\ deliveries[i].status = "running"
    /\ deliveries' = [deliveries EXCEPT
                         ![i] = [HandlerFinish(@, ok) EXCEPT
                                    !.status = AfterHandler(deliveries[i].msg)]]
    /\ configData' = UpdateConfigData(deliveries[i].msg, i)
    /\ UNCHANGED <<now, lastMessageType, lastMessageTime, selectionVars,
                   saveVars, nodeVars, fetchVars, matchVars, callVars, timeoutVars>>

\* time passes
Tick ==
    /\ now < MaxTicks * TickMs
    /\ now' = now + TickMs
    /\ UNCHANGED <<lastMessageType, lastMessageTime, deliveries, configData, selectionVars,
                   saveVars, nodeVars, fetchVars, matchVars, callVars, timeoutVars>>

(***************************************************************************)
(* Selection tracking (src/src/index.ts)                                   *)
(***************************************************************************)
SceneNode(type, name) == [type |-> type, name |-> name, characters |-> OldText]
\* figma.currentPage.selection: nothing, one text node with a name the
\* default pattern matches or not, one node that is no text node, two nodes
Selections ==
    {<<>>, <<SceneNode("TEXT", "jams_hello")>>, <<SceneNode("TEXT", "other_text")>>,
     <<SceneNode("FRAME", "jams_hello")>>,
     <<SceneNode("TEXT", "jams_hello"), SceneNode("TEXT", "jams_hello")>>}
\* the config snapshots the callback can find
SnapshotKinds == {"stored", "badpattern", "nopattern"}

NoDebounceTimer == [armed |-> FALSE, due |-> 0]

\* variant: an armed timer is left to run
Debounce_KeepsTimer(timer) ==
    IF timer.armed THEN timer ELSE [armed |-> TRUE, due |-> now + SELECTION_DEBOUNCE_MS]

\* if (selectionDebounceTimer) clearTimeout(selectionDebounceTimer);
\* selectionDebounceTimer = setTimeout(..., SELECTION_DEBOUNCE_MS)
Debounce(timer) == [armed |-> TRUE, due |-> now + SELECTION_DEBOUNCE_MS]

\* RegExp.test of the configured pattern; the callback skips the test of an
\* empty pattern, which as a RegExp matches every name
NameMatches(pattern, name) == pattern = "" \/ (Compiles(pattern) /\ Test(pattern, name))

\* the timer callback on the selection it finds: the text-node-selected
\* message it posts, or nothing. `await configData` resumes in a microtask,
\* before any other event or timer, so the callback is one step
SelectionCallback(sel, config) ==
    IF Len(sel) = 1 /\ sel[1].type = "TEXT"
    THEN LET pattern == ConfigPattern(config) IN
         IF pattern # "" /\ ~Compiles(pattern) THEN <<>>
         ELSE IF pattern # "" /\ ~Test(pattern, sel[1].name) THEN <<>>
         ELSE <<[type |-> "text-node-selected", nodeName |-> sel[1].name,
                 nodeText |-> sel[1].characters]>>
    ELSE <<>>

LogEntry(kind, sel, posted) == [kind |-> kind, at |-> now, selection |-> sel, posted |-> posted]

\* enableSelectionTracking()
EnableSelectionTracking ==
    /\ enableCalls < MaxEnables
    /\ enableCalls' = enableCalls + 1
    /\ IF isSelectionTrackingEnabled
         THEN UNCHANGED <<isSelectionTrackingEnabled, selectionListeners>>
         ELSE /\ selectionListeners' = selectionListeners + 1
              /\ isSelectionTrackingEnabled' = TRUE
    /\ UNCHANGED <<selectionDebounceTimer, selection, selectionLog, now, lastMessageType,
                   lastMessageTime, deliveries, configData,
                   saveVars, nodeVars, fetchVars, matchVars, callVars, timeoutVars>>

\* the user changes the selection and the registered listener runs
SelectionChange(sel) ==
    /\ selectionListeners >= 1
    /\ Len(SelectSeq(selectionLog, LAMBDA e : e.kind = "event")) < MaxSelectionEvents
    /\ sel # selection
    /\ selection' = sel
    /\ selectionDebounceTimer' = Debounce(selectionDebounceTimer)
    /\ selectionLog' = Append(selectionLog, LogEntry("event", sel, <<>>))
    /\ UNCHANGED <<isSelectionTrackingEnabled, enableCalls, selectionListeners, now, lastMessageType,
                   lastMessageTime, deliveries, configData,
                   saveVars, nodeVars, fetchVars, matchVars, callVars, timeoutVars>>

\* the debounce timer is due and its callback runs
DebounceFires ==
    /\ selectionDebounceTimer.armed
    /\ now = selectionDebounceTimer.due
    /\ selectionDebounceTimer' = [selectionDebounceTimer EXCEPT !.armed = FALSE]
    /\ selectionLog' = Append(selectionLog,
           LogEntry("callback", selection, SelectionCallback(selection, configData.config)))
    /\ UNCHANGED <<isSelectionTrackingEnabled, enableCalls, selectionListeners, selection, now,
                   lastMessageType, lastMessageTime, deliveries, configData,
                   saveVars, nodeVars, fetchVars, matchVars, callVars, timeoutVars>>

\* time passes, up to the moment the armed timer is due
TimePasses ==
    /\ selectionDebounceTimer.armed \/ now < MaxTicks * TickMs
    /\ selectionDebounceTimer.armed => now < selectionDebounceTimer.due
    /\ now' = IF selectionDebounceTimer.armed /\ selectionDebounceTimer.due < now + TickMs
              THEN selectionDebounceTimer.due ELSE now + TickMs
    /\ UNCHANGED <<selectionVars, lastMessageType, lastMessageTime, deliveries, configData,
                   saveVars, nodeVars, fetchVars, matchVars, callVars, timeoutVars>>

(***************************************************************************)
(* handleSaveConfig                                                        *)
(***************************************************************************)
\* the configs the UI can ask to save: the valid one with at most one field
\* changed
SavedConfigs ==
    {c \in Configs :
        Cardinality({i \in 1..Len(RequiredFields) :
                        c[RequiredFields[i]] # ValidConfig[RequiredFields[i]]}) <= 1}

\* a figma.ui.postMessage of the handler
Posted(type, config, detail) == [type |-> type, config |-> config, detail |-> detail]
\* the handler's state: the events posted, the clientStorage.setAsync calls made
SaveConfigState(kind, events, writes) == [kind |-> kind, events |-> events, writes |-> writes]
StorageErrorMessage == "Failed to save config to storage"

\* variant: the config is written before it is validated
SaveConfigStart_WritesFirst(given, config) ==
    IF ~given
    THEN SaveConfigState("returned",
             <<Posted("config-save-failed", ValidConfig, NoConfigError)>>, <<>>)
    ELSE IF validateConfig(config) # NoConfigError
    THEN SaveConfigState("returned",
             <<Posted("config-save-failed", config, validateConfig(config))>>, <<config>>)
    ELSE SaveConfigState("pending", <<>>, <<config>>)

\* handleSaveConfig up to `await saveConfigToStorage(config)`
SaveConfigStart(given, config) ==
    IF ~given
    THEN SaveConfigState("returned",
             <<Posted("config-save-failed", ValidConfig, NoConfigError)>>, <<>>)
    ELSE IF validateConfig(config) # NoConfigError
    THEN SaveConfigState("returned",
             <<Posted("config-save-failed", config, validateConfig(config))>>, <<>>)
    ELSE SaveConfigState("pending", <<>>, <<config>>)

\* handleSaveConfig after the storage write settled: config-saved, then
\* node-count with getTranslatableNodeCount(config); a failed write throws
SaveConfigFinish(st, config, ok) ==
    IF ok
    THEN [st EXCEPT !.kind = "returned",
                    !.events = <<Posted("config-saved", config, NoConfigError),
                                 Posted("node-count", config,
                                        getTranslatableNodeCount(config.NODE_NAME_PATTERN,
                                                                 nodes).count)>>]
    ELSE [st EXCEPT !.kind = "threw"]

SaveConfigCall ==
    /\ fnCall.fn = "handleSaveConfig"
    /\ fnResult = NoFnResult
    /\ fnResult' = SaveConfigStart(fnCall.given, fnCall.config)
    /\ UNCHANGED <<fnCall, saveVars, nodeVars, fetchVars, matchVars, routerVars, timeoutVars>>

StorageSettles(ok) ==
    /\ fnCall.fn = "handleSaveConfig"
    /\ fnResult.kind = "pending"
    /\ fnResult' = SaveConfigFinish(fnResult, fnCall.config, ok)
    /\ UNCHANGED <<fnCall, saveVars, nodeVars, fetchVars, matchVars, routerVars, timeoutVars>>

(***************************************************************************)
(* Specifications                                                          *)
(***************************************************************************)
SaveCallsIdle ==
    /\ saveItem = [s \in Savers |-> [key |-> "", value |-> "", isUpdate |-> FALSE, entryId |-> ""]]
    /\ savePc = [s \in Savers |-> "idle"]
    /\ saveReqs = [s \in Savers |-> <<>>]
    /\ saveResps = [s \in Savers |-> <<>>]
    /\ saveVersion = [s \in Savers |-> NoVersion]
    /\ saveResult = [s \in Savers |-> NoResult]

SaveIdleInit == SaveCallsIdle /\ remoteEntry = NoRemoteEntry

NodeIdleInit ==
    /\ op = NoOp
    /\ idx = 1
    /\ charPos = 0
    /\ fontLoads = <<>>
    /\ loaded = {}
    /\ lastSettled = "none"
    /\ settled = {}
    /\ written = <<>>
    /\ first = NoFirst
    /\ count = 0
    /\ errors = <<>>
    /\ skipped = <<>>
    /\ outcome = NoOutcome

MatchIdleInit == matchCall = NoMatchCall /\ matchResult = NoMatchResult

CallIdleInit == fnCall = NoFnCall /\ fnResult = NoFnResult

TimeoutIdleInit ==
    /\ ftPc = [pc |-> "idle", timeout |-> [given |-> FALSE, ms |-> 0]]
    /\ ftTimer = NoTimer
    /\ ftFetch = "none"
    /\ ftPromise = PendingPromise
    /\ ftLog = <<>>

SelectionIdleInit ==
    /\ isSelectionTrackingEnabled = FALSE
    /\ enableCalls = 0
    /\ selectionListeners = 0
    /\ selectionDebounceTimer = NoDebounceTimer
    /\ selection = <<>>
    /\ selectionLog = <<>>

RouterIdleInit ==
    /\ configData = [config |-> "stored", by |-> 0]
    /\ now = 0
    /\ lastMessageType = "null"
    /\ lastMessageTime = 0
    /\ deliveries = <<>>
    /\ SelectionIdleInit

FetchIdleInit ==
    /\ MatchIdleInit /\ RouterIdleInit
    /\ fetchPc = "idle"
    /\ fetchData = [total |-> 0, odd |-> NoOdd]
    /\ fetchTotal = 0
    /\ fetchReqs = <<>>
    /\ fetchPages = <<>>
    /\ fetchResult = NoFetchResult

\* saveItemToContentful against a remote that may answer anything
SaveInit == SaveIdleInit /\ NodeIdleInit /\ FetchIdleInit /\ CallIdleInit /\ TimeoutIdleInit /\ nodes = <<>> /\ before = <<>>

SaveNext ==
    /\ \E s \in SoloSavers :
          \/ \E item \in Items : SaveCall(s, item)
          \/ \E r \in Responses : GetSettles(s, r)
          \/ \E r \in Responses : UpdateSettles(s, r)
          \/ \E r \in Responses : PublishSettles(s, r)
          \/ \E r \in Responses : CreateSettles(s, r)
          \/ \E r \in Responses : PublishNewSettles(s, r)
    /\ UNCHANGED remoteEntry

SaveSpec == SaveInit /\ [][SaveNext]_vars

\* two calls of saveItemToContentful for the same entry, against the remote
ConcurrentSaveInit ==
    /\ SaveCallsIdle /\ remoteEntry \in [version : Versions]
    /\ NodeIdleInit /\ FetchIdleInit /\ CallIdleInit /\ TimeoutIdleInit
    /\ nodes = <<>> /\ before = <<>>
ConcurrentSaveNext ==
    \E s \in Savers :
        \/ UpdateStarts(s)
        \/ RemoteHandles(s)
        \/ RequestLost(s)

ConcurrentSaveSpec == ConcurrentSaveInit /\ [][ConcurrentSaveNext]_vars

\* one write operation on a page of text nodes
NodeInit == SaveIdleInit /\ NodeIdleInit /\ FetchIdleInit /\ CallIdleInit /\ TimeoutIdleInit /\ nodes \in Pages /\ before = nodes

NodeNext ==
    \/ \E t \in TranslationLists : ApplyCall(t)
    \/ \E ok \in BOOLEAN : ApplyFontSettles(ok)
    \/ ApplyRepeat
    \/ \E m \in MappingLists(Len(nodes)) : RecordCall(m)
    \/ RecordResolve
    \/ \E ok \in BOOLEAN : RecordFontSettles(ok)
    \/ \E ids \in NodeIdLists(Len(nodes)) : UpdateCall(ids, NewText)
    \/ UpdateResolve
    \/ \E ok \in BOOLEAN : UpdateFontSettles(ok)

NodeSpec == NodeInit /\ [][NodeNext]_vars

\* fetchAllContentfulItems against a space of any size in Totals
FetchInit ==
    /\ SaveIdleInit /\ NodeIdleInit /\ nodes = <<>> /\ before = <<>>
    /\ MatchIdleInit /\ RouterIdleInit /\ CallIdleInit /\ TimeoutIdleInit
    /\ fetchPc = "idle"
    /\ fetchData \in Datasets
    /\ fetchTotal = 0
    /\ fetchReqs = <<>>
    /\ fetchPages = <<>>
    /\ fetchResult = NoFetchResult

FetchNext ==
    \/ FetchCall
    \/ \E r \in PageResponses(fetchData, 0) : FirstSettles(r)
    \/ \E p \in 2..Len(fetchPages) :
          \E r \in PageResponses(fetchData, fetchReqs[p]) : PageSettles(p, r)

FetchSpec == FetchInit /\ [][FetchNext]_vars

\* one call of fetchAllContentfulItems on a space with a duplicated key
MergeInit ==
    /\ SaveIdleInit /\ NodeIdleInit /\ nodes = <<>> /\ before = <<>>
    /\ MatchIdleInit /\ RouterIdleInit /\ CallIdleInit /\ TimeoutIdleInit
    /\ fetchPc = "idle"
    /\ fetchData \in DupDatasets
    /\ fetchTotal = 0
    /\ fetchReqs = <<>>
    /\ fetchPages = <<>>
    /\ fetchResult = NoFetchResult

MergeSpec == MergeInit /\ [][FetchNext]_vars

\* one call of a node-matching operation on a page of text nodes
MatchInit == SaveIdleInit /\ NodeIdleInit /\ FetchIdleInit /\ CallIdleInit /\ TimeoutIdleInit /\ nodes \in Pages /\ before = nodes

MatchNext ==
    \/ \E pattern \in Patterns : CountCall(pattern)
    \/ \E pattern \in Patterns : NodesCall(pattern)
    \/ WarnDuplicates

MatchSpec == MatchInit /\ [][MatchNext]_vars

\* the plugin receiving messages from its UI
RouterInit ==
    /\ SaveIdleInit /\ NodeIdleInit /\ FetchIdleInit /\ CallIdleInit /\ TimeoutIdleInit
    /\ nodes = <<TextNode(1, "jams_hello", FALSE, "uniform")>> /\ before = nodes

RouterNext ==
    \/ \E msg \in Messages : OnMessage(msg)
    \/ \E i \in 1..MaxDeliveries : \E ok \in BOOLEAN : HandlerSettles(i, ok)
    \/ Tick

RouterSpec == RouterInit /\ [][RouterNext]_vars

\* selection tracking from the start of the plugin, under any config snapshot
SelectionInit ==
    /\ SaveIdleInit /\ NodeIdleInit /\ MatchIdleInit /\ CallIdleInit /\ TimeoutIdleInit
    /\ nodes = <<>> /\ before = <<>>
    /\ fetchPc = "idle" /\ fetchData = [total |-> 0, odd |-> NoOdd] /\ fetchTotal = 0
    /\ fetchReqs = <<>> /\ fetchPages = <<>> /\ fetchResult = NoFetchResult
    /\ now = 0 /\ lastMessageType = "null" /\ lastMessageTime = 0 /\ deliveries = <<>>
    /\ configData \in [config : SnapshotKinds, by : {0}]
    /\ SelectionIdleInit

SelectionNext ==
    \/ EnableSelectionTracking
    \/ \E sel \in Selections : SelectionChange(sel)
    \/ DebounceFires
    \/ TimePasses

SelectionSpec == SelectionInit /\ [][SelectionNext]_vars

\* the plugin receiving a stream of requests of two types
StreamMessages == {Msg("typed", t, "valid") : t \in {"init", "select-node"}}
StreamNext ==
    \/ \E msg \in StreamMessages : OnMessage(msg)
    \/ \E i \in 1..MaxDeliveries : \E ok \in BOOLEAN : HandlerSettles(i, ok)
    \/ Tick

StreamSpec == RouterInit /\ [][StreamNext]_vars

\* one call of validateConfig
ConfigInit ==
    /\ SaveIdleInit /\ NodeIdleInit /\ FetchIdleInit /\ TimeoutIdleInit
    /\ nodes = <<>> /\ before = <<>>
    /\ fnCall \in [fn : {"validateConfig"}, config : Configs]
    /\ fnResult = NoFnResult

ConfigNext == ValidateCall

ConfigSpec == ConfigInit /\ [][ConfigNext]_vars

\* one call of handleSaveConfig on a page of text nodes
SaveConfigInit ==
    /\ SaveIdleInit /\ NodeIdleInit /\ FetchIdleInit /\ TimeoutIdleInit
    /\ nodes \in Pages /\ before = nodes
    /\ fnCall \in [fn : {"handleSaveConfig"}, given : BOOLEAN, config : SavedConfigs]
    /\ fnResult = NoFnResult

SaveConfigNext ==
    \/ SaveConfigCall
    \/ \E ok \in BOOLEAN : StorageSettles(ok)

SaveConfigSpec == SaveConfigInit /\ [][SaveConfigNext]_vars

\* one sync item of the reconciler
ReconcileInit ==
    /\ SaveIdleInit /\ NodeIdleInit /\ FetchIdleInit /\ TimeoutIdleInit
    /\ nodes = <<>> /\ before = <<>>
    /\ fnCall \in [fn : {"reconcile"}, name : {"jams_hello"}, text : NodeTexts, items : RemoteMaps]
    /\ fnResult = NoFnResult

ReconcileNext == Reconcile

ReconcileSpec == ReconcileInit /\ [][ReconcileNext]_vars

\* the values a gateway function is called with beside the config
LocaleValues == {<<>>, <<" ">>, <<" ", " ">>, <<"a">>, <<" ", "a">>, <<"a", " ">>}
GatewayArgs(fn) ==
    CASE fn = "fetchTranslations" -> LocaleValues
      [] fn = "fetchRecords" -> {<<"a">>}
      [] fn = "saveItemToContentful" -> {<<>>, <<"a">>}
      [] OTHER -> {<<>>}

\* one gateway function building its request, with one value that goes into
\* the URL ranging over every short string
UrlInit ==
    /\ SaveIdleInit /\ NodeIdleInit /\ FetchIdleInit /\ TimeoutIdleInit
    /\ nodes = <<>> /\ before = <<>>
    /\ \E fn \in GatewayFunctions :
          \/ \E field \in DOMAIN UrlConfig, v \in UrlValues, arg \in GatewayArgs(fn) :
                fnCall = [fn |-> fn, config |-> [UrlConfig EXCEPT ![field] = v], arg |-> arg]
          \/ /\ fn \in {"fetchTranslations", "fetchRecords", "saveItemToContentful"}
             /\ \E v \in UrlValues :
                   fnCall = [fn |-> fn, config |-> UrlConfig, arg |-> v]
    /\ fnResult = NoFnResult

UrlNext == IssueRequest

UrlSpec == UrlInit /\ [][UrlNext]_vars

\* one call of a gateway function and the response to its request
GatewayInit ==
    /\ SaveIdleInit /\ NodeIdleInit /\ FetchIdleInit /\ TimeoutIdleInit
    /\ nodes = <<>> /\ before = <<>>
    /\ \E fn \in GatewayFunctions : \E arg \in GatewayArgs(fn) :
          fnCall = [fn |-> fn, config |-> UrlConfig, arg |-> arg]
    /\ fnResult = NoFnResult

GatewayNext ==
    \/ IssueRequest
    \/ \E r \in PossibleResponses : ResponseSettles(r)

GatewaySpec == GatewayInit /\ [][GatewayNext]_vars

\* one call of fetchWithTimeout
TimeoutInit ==
    /\ SaveIdleInit /\ NodeIdleInit /\ FetchIdleInit /\ CallIdleInit /\ TimeoutIdleInit
    /\ nodes = <<>> /\ before = <<>>

TimeoutNext ==
    \/ \E timeout \in TimeoutArgs : FetchWithTimeoutCall(timeout)
    \/ TimerFires
    \/ \E response \in FetchValues : FetchResolves(response)
    \/ \E error \in FetchErrors : FetchRejects(error)

TimeoutSpec == TimeoutInit /\ [][TimeoutNext]_vars

(***************************************************************************)
(* Properties of saveItemToContentful (SaveSpec)                           *)
(***************************************************************************)
\* the stage of the protocol the n-th request of a call belongs to
StageOf(s, n) ==
    IF TakesUpdatePath(saveItem[s])
    THEN (IF n = 1 THEN "fetch" ELSE IF n = 2 THEN "update" ELSE "publish")
    ELSE (IF n = 1 THEN "create" ELSE "publish-new")

\* an ok response whose body is an entry carrying a version
OkEntry(r) == r.kind = "http" /\ r.ok /\ r.json = "entry" /\ r.version # NoVersion
HttpNotOk(r) == r.kind = "http" /\ ~r.ok
Called(s) == savePc[s] # "idle"

\* C1: an update call issues GET then PUT; the PUT is issued only after an ok
\* GET and carries exactly the version that GET returned; a non-ok PUT gives
\* success=false, operation 'update', and no publish request.
C1_UpdateOrder ==
    \A s \in Savers :
        (Called(s) /\ TakesUpdatePath(saveItem[s])) =>
            /\ saveReqs[s][1] = Request("GET", "entry", saveItem[s].entryId, NoVersion)
            /\ Len(saveReqs[s]) >= 2 =>
                  /\ saveResps[s][1].kind = "http" /\ saveResps[s][1].ok
                  /\ saveReqs[s][2] = Request("PUT", "entry", saveItem[s].entryId,
                                              saveResps[s][1].version)
            /\ (Len(saveResps[s]) >= 2 /\ HttpNotOk(saveResps[s][2])) =>
                  /\ saveResult[s].returned /\ ~saveResult[s].success
                  /\ saveResult[s].operation = "update"
                  /\ Len(saveReqs[s]) = 2

C1_Witness ==
    \E s \in Savers :
        /\ TakesUpdatePath(saveItem[s])
        /\ Len(saveResps[s]) = 2
        /\ saveResps[s][1].version = MaxVersion
        /\ saveResps[s][2].status = 409
        /\ saveResult[s].operation = "update"

\* C2: a non-ok response at any of the five stages gives success=false with
\* that stage as operation, the response's status and raw body, and no later
\* request; a failed publish of a created entry is 'publish-new' with the
\* created id and the 'Created but publish failed' message.
C2_StageFailures ==
    \A s \in Savers :
        \A n \in 1..Len(saveResps[s]) :
            HttpNotOk(saveResps[s][n]) =>
                /\ savePc[s] = "done" /\ saveResult[s].returned /\ ~saveResult[s].success
                /\ saveResult[s].operation = StageOf(s, n)
                /\ saveResult[s].status = saveResps[s][n].status
                /\ saveResult[s].response = saveResps[s][n].text
                /\ Len(saveReqs[s]) = n
                /\ StageOf(s, n) = "publish-new" =>
                      /\ saveResult[s].entryId = saveResps[s][1].id
                      /\ saveResult[s].error = "Created but publish failed"

C2_Witness ==
    \E s \in Savers :
        /\ ~TakesUpdatePath(saveItem[s])
        /\ Len(saveResps[s]) = 2
        /\ saveResps[s][1].id = "E2"
        /\ saveResps[s][2].status = 500
        /\ saveResult[s].operation = "publish-new"
        /\ saveResult[s].entryId = "E2"

C4_DraftWithoutPublish ==
    \A s \in Savers :
        Called(s) =>
            /\ \A n \in 1..Len(saveReqs[s]) : saveReqs[s][n].target # "published"
            /\ (~TakesUpdatePath(saveItem[s]) /\ Len(saveResps[s]) >= 1 /\ OkEntry(saveResps[s][1])) =>
                  saveResult[s].success /\ Len(saveReqs[s]) = 1
            /\ (TakesUpdatePath(saveItem[s]) /\ Len(saveResps[s]) >= 2 /\ OkEntry(saveResps[s][2])) =>
                  saveResult[s].success /\ Len(saveReqs[s]) = 2

\* the exception raised while the n-th response of a call is handled: the
\* rejection of the fetch, or the failure to read an entry with a version out
\* of an ok create/GET/update body; "" when none
ExceptionAt(s, n) ==
    LET r == saveResps[s][n] IN
    IF r.kind = "reject" THEN r.message
    ELSE IF r.ok /\ saveReqs[s][n].target # "published"
    THEN (IF r.json = "unparsable" THEN JsonErrorMessage
          ELSE IF r.json = "nosys" \/ r.version = NoVersion THEN TypeErrorMessage
          ELSE "")
    ELSE ""

\* C5: the call always ends by returning a result; an exception at any step
\* (rejected fetch, timeout, unparsable body, body without sys.version) is
\* returned as success=false with error set to the exception's message.
C5_NeverThrows ==
    \A s \in Savers :
        /\ savePc[s] = "done" => saveResult[s].returned
        /\ \A n \in 1..Len(saveResps[s]) :
              ExceptionAt(s, n) # "" =>
                  /\ savePc[s] = "done" /\ saveResult[s].returned
                  /\ ~saveResult[s].success
                  /\ saveResult[s].error = ExceptionAt(s, n)
                  /\ Len(saveReqs[s]) = n

C5_Witness ==
    \E s \in Savers :
        /\ Len(saveResps[s]) = 2
        /\ saveResps[s][2].json = "nosys"
        /\ saveResult[s].returned
        /\ saveResult[s].error = TypeErrorMessage

\* C6: whenever success=false is returned, operation names the stage of the
\* request that failed, for non-ok responses and for exceptions alike.
C6_OperationNamesStage ==
    \A s \in Savers :
        (saveResult[s].returned /\ ~saveResult[s].success) =>
            saveResult[s].operation = StageOf(s, Len(saveResps[s]))

(***************************************************************************)
(* Properties of the write paths (NodeSpec)                                *)
(***************************************************************************)
Finished == op.kind # "none" /\ outcome.kind # "running"
Positions == 1..Len(nodes)
\* the targets whose loop iteration has completed
Processed == {i \in 1..Len(op.targets) : i < idx}
\* the page position the i-th target resolves to (0: no such text node)
TargetNode(i) == IF op.kind = "apply" THEN op.targets[i] ELSE NodeById(op.targets[i])
MissingFontMessages == {"Missing font", "Missing font in node"}
Recorded == {errors[j] : j \in 1..Len(errors)} \cup {skipped[j] : j \in 1..Len(skipped)}

\* C7: no write path assigns characters on a locked node: every locked node
\* keeps the characters it had before the operation, and every targeted
\* locked node is reported as a per-node skip or error.
C7_LockedNeverWritten ==
    op.kind # "none" =>
        /\ \A n \in Positions :
              before[n].locked => nodes[n].characters = before[n].characters
        /\ \A i \in Processed :
              (TargetNode(i) # GoneId /\ nodes[TargetNode(i)].locked) =>
                  \E e \in Recorded :
                      e.name = nodes[TargetNode(i)].name \/ e.id = op.targets[i]

\* a step in which the awaited loadFontAsync settles, and one in which it fails
LoadSettles == charPos >= 1 /\ vars' # vars
LoadFails == LoadSettles /\ lastSettled' = "failed"

C8_Step ==
    /\ \A n \in Positions :
          nodes'[n].characters # nodes[n].characters =>
              /\ LoadSettles /\ lastSettled' = "ok"
              /\ Len(fontLoads) = Len(FontsToLoad(nodes[n]))
              /\ \A k \in 1..Len(fontLoads) :
                    /\ fontLoads[k].node = n
                    /\ fontLoads[k].font = FontsToLoad(nodes[n])[k]
                    /\ fontLoads[k].status = IF k < Len(fontLoads) THEN "ok" ELSE "pending"
    /\ LoadFails =>
          /\ nodes' = nodes
          /\ Len(errors') > Len(errors)
          /\ SubSeq(errors', 1, Len(errors)) = errors
          /\ errors'[Len(errors) + 1].msg = FontErrorMessage
          /\ errors'[Len(errors) + 1].name \in {"", nodes[TargetNode(idx)].name}
          /\ errors'[Len(errors) + 1].id \in {-1, op.targets[idx]}
          /\ idx' > idx

C8_AllProcessed == (Finished /\ Len(op.targets) > 0) => idx = Len(op.targets) + 1

ReachesFontCheck(i) ==
    /\ TargetNode(i) # GoneId
    /\ op.kind = "apply" =>
          ~nodes[TargetNode(i)].locked /\ nodes[TargetNode(i)].name \in DOMAIN op.tmap
    /\ op.kind = "record" =>
          ~nodes[TargetNode(i)].locked /\ op.fields[i] \in DOMAIN op.record

MissingTargets == {i \in Processed : TargetNode(i) # GoneId /\ nodes[TargetNode(i)].hasMissingFont}
MissingErrors == {j \in 1..Len(errors) : errors[j].msg \in MissingFontMessages}

C9_NoLoadNoWrite ==
    /\ \A n \in loaded : ~nodes[n].hasMissingFont
    /\ \A n \in Positions :
          before[n].hasMissingFont => nodes[n].characters = before[n].characters

\* C9 as stated: every targeted node with hasMissingFont gets a missing-font
\* error recorded, is never passed to loadFontAsync and keeps its characters.
C9_MissingFontAlwaysRecorded ==
    op.kind # "none" =>
        /\ C9_NoLoadNoWrite
        /\ \A i \in MissingTargets :
              \E j \in MissingErrors : errors[j].name = nodes[TargetNode(i)].name

\* C9 (amended): a node with hasMissingFont is never passed to loadFontAsync
\* and keeps its characters in every write path; a missing-font error is
\* recorded for it exactly when it reaches the font check, that is when it is
\* not dropped earlier as locked or as having no translation / field value
\* (applyTranslations, applyRecordToNodes).
C9_MissingFontRecordedAtCheck ==
    op.kind # "none" =>
        /\ C9_NoLoadNoWrite
        /\ \A i \in MissingTargets :
              ReachesFontCheck(i) =>
                  \E j \in MissingErrors : errors[j].name = nodes[TargetNode(i)].name
        /\ Cardinality(MissingErrors)
              = Cardinality({i \in MissingTargets : ReachesFontCheck(i)})

C9_Witness ==
    /\ Finished
    /\ op.kind = "update"
    /\ Len(op.targets) = 2
    /\ TargetNode(2) # GoneId
    /\ MissingTargets = {1}
    /\ Cardinality(MissingErrors) = 1
    /\ loaded = {2}
    /\ count = 1

\* the message the precedence errors > skips > nothing matched selects
PrecedenceHolds ==
    /\ outcome.kind = "threw"
    /\ IF Len(errors) > 0
       THEN outcome.message = "Translation failed" /\ outcome.detail = errors[1]
       ELSE IF Len(skipped) > 0
       THEN outcome.message = "All nodes skipped" /\ outcome.detail = skipped[1]
       ELSE outcome.message = "No matching translations found for text nodes"
    /\ (Len(op.targets) = 1 /\ nodes[op.targets[1]].locked) =>
          outcome.message = "All nodes skipped"

\* the call has assigned no node's characters
UpdatedNone == written = <<>>

\* C10 as stated: whenever applyTranslations updates zero nodes it throws one
\* of the three messages, chosen by the precedence.
C10_ZeroUpdatesPrecedence ==
    (op.kind = "apply" /\ Finished /\ UpdatedNone) => PrecedenceHolds

\* C10 (amended): when at least one node matches the pattern and
\* applyTranslations updates zero nodes, it throws, with the message chosen
\* by the precedence first error > first locked skip > nothing matched; a
\* single matching locked node yields 'All nodes skipped'.
C10_MatchedZeroUpdatesPrecedence ==
    (op.kind = "apply" /\ Finished /\ UpdatedNone /\ Len(op.targets) > 0) => PrecedenceHolds

C10_Witness ==
    /\ op.kind = "apply" /\ Finished /\ UpdatedNone
    /\ Len(errors) > 0 /\ Len(skipped) > 0
    /\ outcome.message = "Translation failed"
    /\ errors[1].msg = FontErrorMessage

WrittenSet == {written[k] : k \in 1..Len(written)}

\* C11: applyTranslations returns (does not throw) whenever it updated at
\* least one node, whatever errors and skips it recorded, and the count it
\* returns is the number of nodes whose characters it assigned in that call.
C11_PartialSuccessReturns ==
    op.kind = "apply" =>
        /\ count = Len(written)
        /\ Cardinality(WrittenSet) = Len(written)
        /\ (Finished /\ Len(written) >= 1) =>
              /\ outcome.kind = "returned"
              /\ outcome.success
              /\ outcome.count = Len(written)

C11_Witness ==
    /\ op.kind = "apply" /\ Finished
    /\ Len(written) = 1
    /\ Len(errors) + Len(skipped) >= 1
    /\ outcome.kind = "returned"

\* C12: applyTranslations changes the characters of a node only if its name
\* matches the pattern and is a key of the translation map; every other node
\* keeps the characters it had before the call, and every node the call has
\* written holds the map's value for its name.
C12_OnlyTranslatedMatchesChange ==
    op.kind = "apply" =>
        \A n \in Positions :
            /\ n \in WrittenSet =>
                  /\ PatternTest(nodes[n].name)
                  /\ nodes[n].name \in DOMAIN op.tmap
                  /\ nodes[n].characters = op.tmap[nodes[n].name]
            /\ n \notin WrittenSet => nodes[n] = before[n]
            /\ ~(PatternTest(nodes[n].name) /\ nodes[n].name \in DOMAIN op.tmap)
                  => nodes[n].characters = before[n].characters

C12_Witness ==
    /\ op.kind = "apply" /\ Finished /\ ~first.called
    /\ Len(nodes) = 2
    /\ nodes[1].name = "jams_hello" /\ nodes[1].characters = NewHello
    /\ nodes[2].name = "other_text" /\ "other_text" \in DOMAIN op.tmap
    /\ nodes[2].characters = OldText /\ ~nodes[2].locked /\ ~nodes[2].hasMissingFont

\* every font behaved the same way each time it was loaded
ConsistentFonts == \A f \in {"Arial:Regular", "Arial:Bold"} :
                       ~(<<f, "ok">> \in settled /\ <<f, "failed">> \in settled)

\* C13: applyTranslations is idempotent: called a second time with the same
\* translations on the page the first call left, with the locks unchanged and
\* every font loading as it did before, it leaves every node with the
\* characters the first call left and produces the same outcome (the same
\* count, or the same failure).
C13_Idempotent ==
    (op.kind = "apply" /\ Finished /\ first.called /\ ConsistentFonts) =>
        /\ \A n \in Positions : nodes[n].characters = first.nodes[n].characters
        /\ outcome = first.outcome

C13_Witness ==
    /\ op.kind = "apply" /\ Finished /\ first.called /\ ConsistentFonts
    /\ outcome.kind = "returned" /\ count = 1
    /\ Len(errors) = 1 /\ errors[1].msg = FontErrorMessage
    /\ \E n \in Positions : nodes[n].characters = NewHello

(***************************************************************************)
(* Properties of fetchAllContentfulItems (FetchSpec)                       *)
(***************************************************************************)
CeilDiv(a, b) == (a + b - 1) \div b
Max(a, b) == IF a > b THEN a ELSE b
\* the first page was read and declared fetchTotal
TotalDeclared == fetchPc \in {"pages", "done"} /\ fetchPages[1].kind = "page"
FetchReturned == fetchPc = "done" /\ fetchResult.kind = "returned"
\* the indices (from 0) the k-th request asks for
Covers(k) == fetchReqs[k]..(fetchReqs[k] + limit - 1)
\* an entry that has to be in the map when its page arrives
Usable(item) == item.archivedVersion = NoVersion /\ item.key # 0 /\ item.value # <<>>

\* C14: for a total T declared by the first page and the page size limit,
\* exactly max(1, ceil(T / limit)) requests are issued, with the skip offsets
\* 0, limit, 2 * limit, ..., which cover every index below T exactly once;
\* the returned map holds every non-archived entry with a key and a value of
\* every page that arrived, under its key, with its value and id.
C14_PaginationComplete ==
    /\ TotalDeclared =>
          /\ Len(fetchReqs) = Max(1, CeilDiv(fetchTotal, limit))
          /\ \A k \in 1..Len(fetchReqs) : fetchReqs[k] = (k - 1) * limit
          /\ \A i \in 0..(fetchTotal - 1) :
                Cardinality({k \in 1..Len(fetchReqs) : i \in Covers(k)}) = 1
    /\ FetchReturned =>
          LET keys == DOMAIN fetchResult.items IN
          \A p \in 1..Len(fetchPages) :
              fetchPages[p].kind = "page" =>
                  \A i \in fetchPages[p].lo..fetchPages[p].hi :
                      LET item == Entry(fetchData, i) IN
                      Usable(item) =>
                          /\ item.key \in keys
                          /\ fetchResult.items[item.key] = [value |-> item.value, id |-> i]

C14_Witness ==
    /\ FetchReturned
    /\ fetchTotal = limit + limit \div 2
    /\ fetchReqs = <<0, limit>>
    /\ Cardinality(DOMAIN fetchResult.items) = limit + limit \div 2

\* C15: an entry carrying sys.archivedVersion is never in the returned map,
\* whichever page it is on, so a node named by its key classifies as new;
\* an unpublished (draft) entry of a page that arrived is in the map.
C15_ArchivedExcluded ==
    FetchReturned =>
        LET keys == DOMAIN fetchResult.items IN
        \A i \in 1..fetchData.total :
            LET item == Entry(fetchData, i) IN
            /\ item.archivedVersion # NoVersion =>
                  /\ item.key \notin keys
                  /\ SyncStatus(item.key, item.value, fetchResult.items, keys) = "new"
            /\ (/\ item.publishedVersion = NoVersion
                /\ \E p \in 1..Len(fetchPages) :
                      fetchPages[p].kind = "page" /\ i \in fetchPages[p].lo..fetchPages[p].hi)
                  => SyncStatus(item.key, item.value, fetchResult.items, keys) = "synced"

C15_Witness ==
    /\ FetchReturned
    /\ fetchData.odd = [at |-> limit + 1, kind |-> "archived"]
    /\ Len(fetchPages) = 2 /\ fetchPages[2].kind = "page"
    /\ fetchData.total = limit + limit \div 2
    /\ Cardinality(DOMAIN fetchResult.items) = fetchData.total - 1

\* C16: every page fetchAllContentfulItems requests is accepted only if it
\* carries the items array and fails the call otherwise: a run that returns
\* a map has read every requested page as a page with items.
C16_NoSilentPageLoss ==
    FetchReturned =>
        \A p \in 1..Len(fetchPages) : fetchPages[p].kind = "page"

(***************************************************************************)
(* Properties of the node-matching operations (MatchSpec)                  *)
(***************************************************************************)
\* what the called operation returns for a valid pattern that matches no node
ZeroMatchResult == [NoMatchResult EXCEPT !.kind = "returned"]

\* C17: for a NODE_NAME_PATTERN that is not a valid regular expression,
\* getTranslatableNodes and getTranslatableNodeCount do not throw, return
\* zero matches, and return something that differs from the result of a
\* valid pattern that matched zero nodes.
C17_InvalidPatternSignalled ==
    (matchCall # NoMatchCall /\ ~Compiles(matchCall.pattern)) =>
        /\ matchResult.kind = "returned"
        /\ matchResult.count = 0 /\ matchResult.nodes = <<>>
        /\ matchResult # ZeroMatchResult

\* C29: for a non-empty list of ids, updateMultipleNodes takes the ids one
\* by one in list order, each ending in one write or one recorded error, so
\* that in the result count plus the number of errors is the number of ids;
\* success is true exactly when count > 0, errors holds every failure, and
\* error is the first failure exactly when count is 0. A failure does not
\* stop the loop.
C29_BatchResult ==
    (op.kind = "update" /\ Len(op.targets) > 0) =>
        /\ outcome.kind # "threw"
        /\ outcome.kind # "returned" =>
              /\ idx \in 1..Len(op.targets)
              /\ count + Len(errors) = idx - 1
              /\ Len(written) = count
        /\ outcome.kind = "returned" =>
              /\ outcome.count + Len(outcome.errors) = Len(op.targets)
              /\ outcome.count = Len(written)
              /\ outcome.success <=> outcome.count > 0
              /\ outcome.errors = errors
              /\ outcome.count = 0 => outcome.detail = outcome.errors[1]
              /\ outcome.count > 0 => outcome.detail = NoErr

C29_Witness ==
    /\ op.kind = "update" /\ outcome.kind = "returned"
    /\ Len(op.targets) = 3
    /\ op.targets[1] = GoneId
    /\ Len(outcome.errors) = 2
    /\ outcome.count = 1
    /\ written = <<2>>

(***************************************************************************)
(* Properties of the message router (RouterSpec)                           *)
(***************************************************************************)
Typed(j) == deliveries[j].msg.shape = "typed"
\* the processed earlier deliveries of the type of the j-th
SameTypeBefore(j) ==
    {i \in 1..(j - 1) : /\ ~deliveries[i].dropped
                        /\ Typed(i)
                        /\ deliveries[i].msg.type = deliveries[j].msg.type}
Latest(S) == CHOOSE i \in S : \A k \in S : k <= i

\* C18: a request that arrives less than 200 ms after a request of its type
\* was processed is dropped and reaches no handler, whatever was processed in
\* between; one that arrives 200 ms or more after the last processed request
\* of its type is processed.
C18_DuplicateDropped ==
    \A j \in 1..Len(deliveries) :
        (Typed(j) /\ SameTypeBefore(j) # {}) =>
            IF deliveries[j].at - deliveries[Latest(SameTypeBefore(j))].at
                   < DUPLICATE_THRESHOLD_MS
            THEN /\ deliveries[j].dropped
                 /\ deliveries[j].handler = "none"
                 /\ deliveries[j].events = <<>>
            ELSE ~deliveries[j].dropped

\* the response event the protocol correlates with a request type
Responses_(type) ==
    CASE type = "init" -> {"config-loaded"}
      [] type = "save-config" -> {"config-saved", "config-save-failed"}
      [] type = "load-locales" -> {"locales-loaded"}
      [] type = "apply-translation" -> {"translation-applied"}
      [] type = "get-translatable-nodes" -> {"translatable-nodes-loaded"}
      [] type = "get-all-contentful-items" -> {"contentful-items-loaded"}
      [] type = "save-contentful-item" -> {"item-saved"}
      [] type = "update-multiple-nodes" -> {"update-multiple-nodes-result"}
      [] OTHER -> {}
Events(j) == {deliveries[j].events[k] : k \in 1..Len(deliveries[j].events)}

\* C19: every delivered request of a protocol type produces its correlated
\* response event or the generic error event once what it awaits has
\* settled: no such delivery ends without one of them.
C19_EveryRequestAnswered ==
    \A j \in 1..Len(deliveries) :
        (/\ Typed(j)
         /\ deliveries[j].msg.type \in ProtocolTypes
         /\ deliveries[j].status # "running")
            => Events(j) \cap (Responses_(deliveries[j].msg.type) \cup {"error"}) # {}

\* C20: for every inbound value the entry point neither throws nor rejects;
\* malformed and unknown messages reach no handler and post nothing, and an
\* exception escaping a handler becomes exactly one generic error event.
C20_OnMessageNeverRejects ==
    \A j \in 1..Len(deliveries) :
        /\ deliveries[j].status # "rejected"
        /\ (~Typed(j) \/ deliveries[j].msg.type = "bogus") =>
              deliveries[j].handler = "none" /\ deliveries[j].events = <<>>
        /\ deliveries[j].escaped => deliveries[j].events = <<"error">>

\* C21: no request to the CMS is issued with a config that validateConfig
\* rejects (a blank required field or a pattern that does not compile), for
\* any request type that carries a config.
C21_InvalidConfigNeverSent ==
    \A j \in 1..Len(deliveries) :
        deliveries[j].remote # "none" =>
            validateConfig(ConfigOf(deliveries[j].remote)) = NoConfigError

\* C22: the config snapshot that selection tracking reads is replaced only
\* by a save-config request that was answered with config-saved; a rejected,
\* unpersisted or dropped save-config leaves it as it was.
C22_SnapshotOnlyFromSavedConfig ==
    configData.by # 0 =>
        /\ deliveries[configData.by].msg.type = "save-config"
        /\ ~deliveries[configData.by].dropped
        /\ "config-saved" \in Events(configData.by)

(***************************************************************************)
(* Properties of validateConfig (ConfigSpec)                               *)
(***************************************************************************)
WhitespaceOnly(str) == str \in {"", " ", "  "}
MissingFields(config) ==
    {i \in 1..Len(RequiredFields) : WhitespaceOnly(config[RequiredFields[i]])}

\* C23: validateConfig returns the 'is required' message of the first
\* required field (in the order SPACE_ID, ENVIRONMENT, CMA_TOKEN,
\* CONTENT_TYPE, KEY_FIELD, VALUE_FIELD, NODE_NAME_PATTERN) that is empty or
\* whitespace-only, the 'Invalid regex pattern' message when every field is
\* populated and the pattern does not compile, and null in every other case.
C23_ValidateConfig ==
    (fnCall.fn = "validateConfig" /\ fnResult.kind = "returned") =>
        LET config == fnCall.config
            missing == MissingFields(config)
        IN IF missing # {}
           THEN /\ fnResult.value.kind = "required"
                /\ \E i \in missing :
                      /\ \A k \in missing : i <= k
                      /\ fnResult.value.field = RequiredFields[i]
           ELSE IF config.NODE_NAME_PATTERN = "[invalid"
           THEN /\ fnResult.value.kind = "invalid-regex"
                /\ fnResult.value.pattern = "[invalid"
           ELSE fnResult.value = NoConfigError

C23_Witness ==
    /\ fnCall.fn = "validateConfig" /\ fnResult.kind = "returned"
    /\ fnCall.config.SPACE_ID = " x "
    /\ fnCall.config.ENVIRONMENT = "  "
    /\ fnCall.config.CONTENT_TYPE = ""
    /\ fnCall.config.NODE_NAME_PATTERN = "[invalid"
    /\ fnResult.value.field = "ENVIRONMENT"

(***************************************************************************)
(* Properties of fetchWithTimeout (TimeoutSpec)                            *)
(***************************************************************************)
FromTimer(entry) == entry.how = "rejected" /\ entry.value = TimeoutError

\* C24: the promise of fetchWithTimeout takes the outcome of whichever of
\* the fetch settling and the timer firing happens first (the response, the
\* fetch's own error, or the 'Request timeout' error) and nothing that
\* happens later changes it; the timer is armed with the given delay,
\* 10 s when none is given, and does not fire once the fetch has settled.
C24_SettlesOnceByFirstEvent ==
    ftPc.pc = "called" =>
        /\ ftTimer.delay = IF ftPc.timeout.given THEN ftPc.timeout.ms ELSE API_TIMEOUT
        /\ ftLog = <<>> => ftPromise.state = "pending"
        /\ ftLog # <<>> =>
              /\ ftPromise = [state |-> ftLog[1].how, value |-> ftLog[1].value]
              /\ FromTimer(ftLog[1]) <=> ftTimer.state = "fired"
              /\ ~FromTimer(ftLog[1]) =>
                    /\ Len(ftLog) = 1
                    /\ ftFetch = ftLog[1].how
                    /\ ftLog[1].how = "resolved" => ftLog[1].value \in FetchValues
                    /\ ftLog[1].how = "rejected" => ftLog[1].value \in FetchErrors

C24_Witness ==
    /\ Len(ftLog) = 2
    /\ FromTimer(ftLog[1])
    /\ ftLog[2].how = "resolved"
    /\ ftPromise = [state |-> "rejected", value |-> TimeoutError]
    /\ ~ftPc.timeout.given

(***************************************************************************)
(* Properties of the gateway (GatewaySpec, UrlSpec)                        *)
(***************************************************************************)
Answered == fnResult.kind \in {"threw", "returned"} /\ "response" \in DOMAIN fnResult
ListCalls == {"fetchLocales", "fetchContentTypes"}

\* C25: every gateway function maps a non-ok response alike: 401 and 403 to
\* the invalid-credentials condition, 404 to 'Space or environment not
\* found' for the locale and content-type-list calls and to 'Content type
\* not found' for the others, any other status to a failure that carries
\* the status code.
C25_UniformStatusMapping ==
    (Answered /\ fnResult.response.kind = "http" /\ ~fnResult.response.ok) =>
        LET st == fnResult.response.status IN
        IF st = 401 \/ st = 403 THEN fnResult.message = "Invalid API credentials"
        ELSE IF st = 404
        THEN fnResult.message = IF fnCall.fn \in ListCalls
                                THEN "Space or environment not found"
                                ELSE "Content type not found"
        ELSE fnResult.status = Carried(st)

\* the pieces of a URL that make its structure: the fixed texts of the
\* template and every raw delimiter or space
Unreserved == {"a", "%2F", "%3F", "%23", "%20"}
Structure(url) == SelectSeq(url, LAMBDA piece : piece \notin Unreserved)
PlainArg(arg) == IF arg = <<>> THEN <<>> ELSE <<"a">>

\* C26: whatever characters the space id, environment, content type, locale
\* and entry id hold, the URL of the request has the structure its template
\* has for plain values: no '/', '?', '#' or space of a value reaches the
\* URL unescaped. This includes the update and publish URLs of
\* saveItemToContentful.
C26_UrlStructureKept ==
    fnResult.kind = "pending" =>
        /\ Structure(fnResult.url)
              = Structure(RequestUrl(fnCall.fn, UrlConfig, PlainArg(fnCall.arg)))
        /\ (fnCall.fn = "saveItemToContentful" /\ fnCall.arg # <<>>) =>
              Structure(PublishUrl(fnCall.config, fnCall.arg))
                  = Structure(PublishUrl(UrlConfig, PlainArg(fnCall.arg)))

AllSpaces(str) == \A i \in 1..Len(str) : str[i] = " "
NonBlankString(v) == v \in {"x", " x "}
Qualifies(item) ==
    item.shape = "entry" /\ NonBlankString(item.key) /\ NonBlankString(item.value)
RECURSIVE Qualifying(_)
Qualifying(list) ==
    IF list = <<>> THEN <<>>
    ELSE (IF Qualifies(Head(list))
          THEN <<[key |-> Head(list).key, value |-> Head(list).value]>> ELSE <<>>)
         \o Qualifying(Tail(list))

\* C30: fetchTranslations rejects with 'Invalid locale', without issuing a
\* request, for every empty or whitespace-only locale; for a valid locale
\* what it returns is exactly the entries of the response whose key field
\* and value field are both strings that are non-empty after trimming.
C30_FetchTranslations ==
    fnCall.fn = "fetchTranslations" =>
        /\ AllSpaces(fnCall.arg) =>
              \/ fnResult = NoFnResult
              \/ fnResult = Threw("", "Invalid locale", NoStatus)
        /\ (~AllSpaces(fnCall.arg) /\ fnResult.kind = "returned") =>
              /\ fnResult.value = Qualifying(fnResult.response.list)
              /\ \A i \in 1..Len(fnResult.value) :
                    /\ NonBlankString(fnResult.value[i].key)
                    /\ NonBlankString(fnResult.value[i].value)

C30_Witness ==
    /\ fnCall.fn = "fetchTranslations"
    /\ fnResult.kind = "returned"
    /\ Len(fnResult.response.list) = 2
    /\ fnResult.response.list[1] = [shape |-> "entry", key |-> "  ", value |-> "x"]
    /\ fnResult.response.list[2] = [shape |-> "entry", key |-> " x ", value |-> "x"]
    /\ fnResult.value = <<[key |-> " x ", value |-> "x"]>>

(***************************************************************************)
(* Properties of the reconciler                                            *)
(***************************************************************************)
\* a text with every precomposed letter spelled as letter and accent
RECURSIVE Decompose(_)
Decompose(str) ==
    IF str = <<>> THEN <<>>
    ELSE (IF Head(str) = "a-acute" THEN <<"a", "acute">> ELSE <<Head(str)>>)
             \o Decompose(Tail(str))
IsSpace(c) == c \in {" ", "nbsp"}
RECURSIVE SplitWords(_, _, _)
SplitWords(str, word, acc) ==
    LET closed == IF word = <<>> THEN acc ELSE Append(acc, word) IN
    IF str = <<>> THEN closed
    ELSE IF IsSpace(Head(str)) THEN SplitWords(Tail(str), <<>>, closed)
    ELSE SplitWords(Tail(str), Append(word, Head(str)), acc)
\* the words of a text: its maximal runs of visible characters
Words(str) == SplitWords(SelectSeq(Decompose(str), LAMBDA c : c # "zwsp"), <<>>, <<>>)
\* two texts that differ at most in whitespace, zero-width characters and
\* composition
SameText(a, b) == Words(a) = Words(b)
Reconciled == fnCall.fn = "reconcile" /\ fnResult.kind = "returned"

Named(name) == {i \in 1..Len(nodes) : nodes[i].name = name}
\* the positions of the returned items that carry a name
ReturnedNamed(name) == {k \in 1..Len(matchResult.nodes) : matchResult.nodes[k].name = name}
\* a name the pattern matches that two or more nodes of the page carry
SharedName(name) == Test(matchCall.pattern, name) /\ Cardinality(Named(name)) >= 2

\* C28: when two or more text nodes of the page share a name the (valid)
\* pattern matches, getTranslatableNodes throws nothing and returns each of
\* them as an item of its own, with its id, name and characters, in document
\* order; the warnings recorded on receipt of the result name that name.
C28_DuplicateNamesKept ==
    (matchCall.op = "getTranslatableNodes" /\ Compiles(matchCall.pattern)) =>
        \A name \in Names :
            SharedName(name) =>
                /\ matchResult.kind = "returned"
                /\ Cardinality(ReturnedNamed(name)) = Cardinality(Named(name))
                /\ \A i \in Named(name) :
                      \E k \in ReturnedNamed(name) :
                          matchResult.nodes[k] = [id |-> nodes[i].id, name |-> name,
                                                  characters |-> nodes[i].characters]
                /\ \A k, l \in ReturnedNamed(name) :
                      k < l => matchResult.nodes[k].id < matchResult.nodes[l].id
                /\ fnResult.kind = "warnings" => name \in fnResult.value

C28_Witness ==
    /\ matchCall = [op |-> "getTranslatableNodes", pattern |-> "^jams_"]
    /\ Len(nodes) = 2 /\ nodes[1].name = "jams_hello" /\ nodes[2].name = "jams_hello"
    /\ matchResult.kind = "returned"
    /\ Len(matchResult.nodes) = 2
    /\ matchResult.nodes[1].id = 1 /\ matchResult.nodes[2].id = 2
    /\ fnResult = [kind |-> "warnings", value |-> {"jams_hello"}]

(***************************************************************************)
(* Properties of interleaved saves                                         *)
(***************************************************************************)
SaveDone(s) == savePc[s] = "done" /\ saveResult[s].returned
\* the version the GET of a call read, NoVersion when it read none
ReadVersion(s) ==
    IF Len(saveResps[s]) >= 1 /\ saveResps[s][1].kind = "http" /\ saveResps[s][1].ok
    THEN saveResps[s][1].version ELSE NoVersion
\* a write of the call was answered with the version conflict
WentStale(s) ==
    \E n \in 1..Len(saveResps[s]) :
        saveResps[s][n].kind = "http" /\ saveResps[s][n].status = VersionMismatch

\* C31: of two updates of the same entry that read the same version in their
\* GET, at most one returns success; a save one of whose writes carried a
\* stale version has returned success = false with operation 'update' or
\* 'publish', the stage of that write.
C31_StaleSaveFails ==
    /\ \A s, t \in Savers :
          (s # t /\ SaveDone(s) /\ SaveDone(t)
               /\ ReadVersion(s) # NoVersion /\ ReadVersion(s) = ReadVersion(t))
              => ~(saveResult[s].success /\ saveResult[t].success)
    /\ \A s \in Savers :
          WentStale(s) =>
              /\ SaveDone(s) /\ ~saveResult[s].success
              /\ saveResult[s].operation \in {"update", "publish"}
              /\ saveResult[s].status = VersionMismatch
              /\ saveResult[s].operation = IF Len(saveResps[s]) = 2 THEN "update" ELSE "publish"

C31_Witness ==
    /\ SaveDone(1) /\ SaveDone(2)
    /\ ReadVersion(1) = 1 /\ ReadVersion(2) = 1
    /\ saveResult[1].success
    /\ ~saveResult[2].success /\ saveResult[2].operation = "update"
    /\ saveResult[2].status = VersionMismatch
    /\ remoteEntry.version = 3

(***************************************************************************)
(* Properties of applyTranslations: lookup, empty page, keys, fonts        *)
(***************************************************************************)
\* C38: on a page none of whose text nodes matches the pattern,
\* applyTranslations throws 'No translatable text nodes found on current
\* page' with no loadFontAsync called and no node written.
C38_NoTargetsThrowsFirst ==
    (op.kind = "apply" /\ \A i \in 1..Len(before) : ~PatternTest(before[i].name)) =>
        /\ outcome.kind = "threw"
        /\ outcome.message = "No translatable text nodes found on current page"
        /\ fontLoads = <<>>
        /\ written = <<>>
        /\ nodes = before

\* the call was made with a translation for a node of a page that has text
\* nodes, none of them matched
C38_Witness ==
    /\ op.kind = "apply"
    /\ Len(before) >= 1
    /\ \A i \in 1..Len(before) : ~PatternTest(before[i].name)
    /\ \E i \in 1..Len(before) : before[i].name \in DOMAIN op.tmap
    /\ outcome.kind = "threw"

\* C39: the lookup map of applyTranslations is keyed by trimmed keys, so
\* that a translation whose key carries surrounding whitespace is found under
\* the name of the node it is meant for.
C39_KeysTrimmed ==
    op.kind = "apply" => \A k \in DOMAIN op.tmap : k = Trim(k)

\* C40: while applyTranslations or updateMultipleNodes loads the fonts of a
\* node, no (family, style) pair is passed to loadFontAsync a second time,
\* however many character positions of the node use it.
C40_EachFontLoadedOnce ==
    op.kind \in {"apply", "update"} =>
        \A i, j \in 1..Len(fontLoads) :
            (fontLoads[i].node = fontLoads[j].node /\ fontLoads[i].font = fontLoads[j].font)
                => i = j

\* C32: in applyTranslations every node recorded in skipped[] has a
\* translation: a matched node whose name the translation map lacks is
\* recorded nowhere, locked or not.
C32_LookupDecidesFirst ==
    op.kind = "apply" =>
        \A i \in 1..Len(skipped) : skipped[i].name \in DOMAIN op.tmap

\* a position of the space is on a page that arrived
Arrived(i) ==
    \E p \in 1..Len(fetchPages) :
        fetchPages[p].kind = "page" /\ i \in fetchPages[p].lo..fetchPages[p].hi
\* the number of the page a position of the space is on
PageOf(i) == (i - 1) \div limit + 1
\* the keys that two entries of a space can share
SharedKeys == {1, limit + 1}

\* C33: whatever order the requested pages settle in, a call whose first
\* page arrived returns; the map holds a key exactly when a page that
\* arrived has an entry with it, with the value and id of the entry on the
\* highest-numbered such page.
C33_MergeInPageOrder ==
    /\ (fetchPc = "done" /\ fetchPages[1].kind = "page") => fetchResult.kind = "returned"
    /\ FetchReturned =>
          LET items == fetchResult.items IN
          /\ \A k \in SharedKeys :
                LET holders == {i \in 1..fetchData.total :
                                   Arrived(i) /\ Entry(fetchData, i).key = k} IN
                /\ k \in DOMAIN items <=> holders # {}
                /\ k \in DOMAIN items =>
                      \E i \in holders :
                          /\ \A j \in holders : PageOf(j) <= PageOf(i)
                          /\ items[k] = [value |-> Entry(fetchData, i).value, id |-> i]
          /\ \A k \in DOMAIN items \ SharedKeys :
                Arrived(k) /\ items[k] = [value |-> Entry(fetchData, k).value, id |-> k]

C33_Witness ==
    /\ FetchReturned
    /\ fetchData = [total |-> 2 * limit + 1, odd |-> [at |-> limit + 1, kind |-> "dupkey"]]
    /\ \A p \in 1..3 : fetchPages[p].kind = "page"
    /\ fetchResult.items[1] = [value |-> <<"a", "a">>, id |-> limit + 1]
    /\ Cardinality(DOMAIN fetchResult.items) = 2 * limit

(***************************************************************************)
(* Properties of the choice between update and create                      *)
(***************************************************************************)
\* C34: a call with isUpdate true and a non-empty entryId starts with the GET
\* of that entry and sends no POST; every other call starts with the POST to
\* /entries, sends no GET and no PUT of an entry, and its only other request
\* is the publish of the entry id the POST returned.
C34_UpdateOrCreate ==
    \A s \in Savers :
        Len(saveReqs[s]) >= 1 =>
            LET item == saveItem[s]
                reqs == saveReqs[s] IN
            IF item.isUpdate /\ item.entryId # ""
            THEN /\ reqs[1] = Request("GET", "entry", item.entryId, NoVersion)
                 /\ \A n \in 1..Len(reqs) :
                       reqs[n].method # "POST" /\ reqs[n].id = item.entryId
            ELSE /\ reqs[1] = Request("POST", "entries", Undef, NoVersion)
                 /\ Len(reqs) <= 2
                 /\ \A n \in 2..Len(reqs) :
                       /\ reqs[n].method = "PUT" /\ reqs[n].target = "published"
                       /\ reqs[n].id = saveResps[s][1].id

C34_Witness ==
    \E s \in Savers :
        /\ saveItem[s].isUpdate /\ saveItem[s].entryId = ""
        /\ savePc[s] = "done" /\ saveResult[s].success
        /\ saveReqs[s] = <<Request("POST", "entries", Undef, NoVersion),
                           Request("PUT", "published", "E2", 1)>>

(***************************************************************************)
(* Properties of handleSaveConfig                                          *)
(***************************************************************************)
SaveConfigCalled == fnCall.fn = "handleSaveConfig" /\ fnResult # NoFnResult
\* the config passes validation: every field has a non-blank value and the
\* pattern is a regular expression
Accepted(config) ==
    /\ \A i \in 1..Len(RequiredFields) : config[RequiredFields[i]] \notin {"", "  "}
    /\ config.NODE_NAME_PATTERN # "[invalid"
EventTypes(events) == [i \in 1..Len(events) |-> events[i].type]
\* the text nodes of the page that the pattern '^jams_' matches
JamsNodes == Cardinality({i \in 1..Len(nodes) : nodes[i].name = "jams_hello"})

\* C35: handleSaveConfig calls the storage write only with a config that is
\* given and passes validation, and posts config-saved only after that write
\* succeeded; for a missing or invalid config it posts config-save-failed
\* alone and writes nothing; after a successful write it posts config-saved
\* with the config, then node-count with the count under the new pattern.
C35_SaveConfig ==
    SaveConfigCalled =>
        LET ok == fnCall.given /\ Accepted(fnCall.config)
            types == EventTypes(fnResult.events) IN
        /\ ~ok => /\ fnResult.kind = "returned"
                  /\ types = <<"config-save-failed">>
                  /\ fnResult.writes = <<>>
        /\ ok => /\ fnResult.writes = <<fnCall.config>>
                 /\ fnResult.kind \in {"pending", "threw"} => types = <<>>
                 /\ fnResult.kind = "returned" =>
                       /\ types = <<"config-saved", "node-count">>
                       /\ fnResult.events[1].config = fnCall.config
                       /\ fnResult.events[2].detail =
                             IF fnCall.config.NODE_NAME_PATTERN = "^jams_" THEN JamsNodes ELSE 0

C35_Witness ==
    /\ SaveConfigCalled
    /\ fnCall.given /\ fnCall.config = [ValidConfig EXCEPT !.SPACE_ID = " x "]
    /\ fnResult.kind = "returned"
    /\ EventTypes(fnResult.events) = <<"config-saved", "node-count">>
    /\ fnResult.events[2].detail = 2

(***************************************************************************)
(* Properties of the deduplication window                                  *)
(***************************************************************************)
NotDropped == {j \in 1..Len(deliveries) : ~deliveries[j].dropped}
NotDroppedBefore(j) == {i \in NotDropped : i < j}

\* C36: lastMessageType and lastMessageTime are those of the last request
\* that was processed, never of a dropped one; a request is dropped only
\* less than 200 ms after the last processed request, which has its type,
\* and a request that arrives 200 ms or more after the last processed one
\* is processed.
C36_WindowFromLastProcessed ==
    /\ NotDropped # {} =>
          /\ lastMessageTime = deliveries[Latest(NotDropped)].at
          /\ lastMessageType = deliveries[Latest(NotDropped)].msg.type
    /\ \A j \in 1..Len(deliveries) :
          /\ deliveries[j].dropped =>
                /\ NotDroppedBefore(j) # {}
                /\ LET i == Latest(NotDroppedBefore(j)) IN
                   /\ deliveries[i].msg.type = deliveries[j].msg.type
                   /\ deliveries[j].at - deliveries[i].at < DUPLICATE_THRESHOLD_MS
          /\ (/\ NotDroppedBefore(j) # {}
              /\ deliveries[j].at - deliveries[Latest(NotDroppedBefore(j))].at
                     >= DUPLICATE_THRESHOLD_MS)
                => ~deliveries[j].dropped

C36_Witness ==
    /\ Len(deliveries) = 3
    /\ \A j \in 1..3 : deliveries[j].msg.type = "init"
    /\ deliveries[2].at - deliveries[1].at < DUPLICATE_THRESHOLD_MS
    /\ deliveries[3].at - deliveries[2].at < DUPLICATE_THRESHOLD_MS
    /\ ~deliveries[1].dropped /\ deliveries[2].dropped /\ ~deliveries[3].dropped
    /\ lastMessageTime = deliveries[3].at

(***************************************************************************)
(* Properties of selection tracking                                        *)
(***************************************************************************)
SelectionEvents == {i \in 1..Len(selectionLog) : selectionLog[i].kind = "event"}
CallbackRuns == {i \in 1..Len(selectionLog) : selectionLog[i].kind = "callback"}
\* the last selectionchange event before position i of the log, 0 if none
LastEventBefore(i) ==
    IF \E j \in SelectionEvents : j < i
    THEN CHOOSE j \in SelectionEvents : j < i /\ \A k \in SelectionEvents : k < i => k <= j
    ELSE 0
\* two events of one burst: the later one less than the debounce time after
\* the earlier one, and no event between them
InBurst(j, k) ==
    /\ j < k
    /\ selectionLog[k].at - selectionLog[j].at < SELECTION_DEBOUNCE_MS
    /\ \A m \in SelectionEvents : ~(j < m /\ m < k)
SingleMatchingText(sel) ==
    /\ Len(sel) = 1
    /\ sel[1].type = "TEXT"
    /\ NameMatches(ConfigPattern(configData.config), sel[1].name)

\* C37: selection-change events are coalesced. Nothing is posted between two
\* events of a burst; every run of the callback comes SELECTION_DEBOUNCE_MS
\* after the last event, once per event at most, and posts one
\* text-node-selected message describing the selection of that moment exactly
\* when that selection is a single text node whose name matches the pattern;
\* however often tracking is enabled, one listener is registered.
C37_SelectionDebounced ==
    /\ selectionListeners <= 1
    /\ \A j, k \in SelectionEvents : InBurst(j, k) => \A c \in CallbackRuns : ~(j < c /\ c < k)
    /\ \A c \in CallbackRuns :
          LET e == LastEventBefore(c) IN
          /\ e # 0
          /\ \A d \in CallbackRuns : d < c => d < e
          /\ selectionLog[c].at = selectionLog[e].at + SELECTION_DEBOUNCE_MS
          /\ selectionLog[c].selection = selectionLog[e].selection
          /\ selectionLog[c].posted =
                IF SingleMatchingText(selectionLog[e].selection)
                THEN <<[type |-> "text-node-selected",
                        nodeName |-> selectionLog[e].selection[1].name,
                        nodeText |-> selectionLog[e].selection[1].characters]>>
                ELSE <<>>

\* tracking was enabled twice, and after a burst of two events the callback
\* posted the text node selected by the second
C37_Witness ==
    /\ enableCalls >= 2
    /\ \E j, k \in SelectionEvents, c \in CallbackRuns :
          /\ InBurst(j, k) /\ k < c
          /\ selectionLog[k].at > selectionLog[j].at
          /\ selectionLog[j].selection # selectionLog[k].selection
          /\ selectionLog[c].posted # <<>>
====
